---- MODULE Spec2Model ----
(***************************************************************************)
(* The raycasting game core of the repository: the tile-grid World, the    *)
(* Player, and the GameEngine's input handlers.                            *)
(*                                                                         *)
(* Numbers.  The code computes on floats; the model computes on integers:  *)
(*   - positions are world units (pixels; TILE_SIZE of them per tile);     *)
(*   - a time step dt is a whole number of milliseconds, as returned by    *)
(*     clock.tick (src/cod_zombies_game.py:41 divides it by 1000.0);       *)
(*   - angles are milliradians, so 2*pi is TwoPi and the mouse sensitivity *)
(*     of 0.002 rad per pixel is 2.                                        *)
(* Python's None/True/False results are the strings "None"/"True"/"False". *)
(***************************************************************************)
EXTENDS Integers, Sequences, FiniteSets, TLC

VARIABLES
    x, y, angle,              \* Player.x, Player.y, Player.angle
    health, ammo, points,     \* Player.health, Player.ammo, Player.points
    current_weapon,           \* Player.current_weapon
    map_data,                 \* World.map_data
    zombies, bullets,         \* World.zombies (healths), World.bullets (should_remove flags)
    wave, zombies_remaining, zombies_killed,
    quota,                    \* history: the spawn quota set when the wave began
    keys_pressed, game_state, \* GameEngine.keys_pressed, GameEngine.game_state
    frame_dt,                 \* main: dt of the current tick, in milliseconds
    ticks,                    \* history: ticks of the main loop begun so far
    op, ret,                  \* history: the last operation called and what it returned
    pre,                      \* history: before the last call, the field it is about
    shots,                    \* history: shoot() calls since the magazine was last full
    qx, qy,                   \* the coordinates of the last is_wall / get_wall_at query
    ray_pc,                   \* Renderer: where the cast of the current column stands
    start_x, start_y, ray_angle,  \* _cast_ray: its arguments
    ray_x, ray_y,             \* _cast_ray: its locals x, y (in 1/UNIT of a world unit)
    distance, wall_type,      \* _cast_ray: distance, and the wall type it returns
    ray_steps,                \* history: iterations of the march loop in this cast
    wall_height,              \* render_3d_view: wall_height (in 1/UNIT of a pixel)
    wall_top, wall_bottom,    \* render_3d_view: wall_top, wall_bottom (in 1/UNIT of a pixel)
    shade_factor,             \* render_3d_view: shade_factor (in 1/UNIT)
    shaded_color,             \* render_3d_view: shaded_color
    column_rects,             \* render_3d_view: the rectangles drawn for the column
    affiliate_links,          \* Database: the rows of table affiliate_links
    click_tracking,           \* Database: the rows of table click_tracking
    link_performance,         \* Database: the rows of table link_performance
    now,                      \* the clock of the database, in days
    track_task,               \* AffiliateService.track_click: the coroutine in flight
    create_tasks,             \* AffiliateService.create_affiliate_link: the coroutines in flight
    http_response,            \* click server: the response to the last GET /track/{short_id}
    track_calls,              \* history: successful track_click calls, per link id
    bot_ret                   \* history: what the last service call returned

vars == <<x, y, angle, health, ammo, points, current_weapon, map_data, zombies,
          bullets, wave, zombies_remaining, zombies_killed, quota, keys_pressed,
          game_state,
          frame_dt, ticks, op, ret,
          pre, shots, qx, qy, ray_pc, start_x, start_y, ray_angle, ray_x, ray_y,
          distance, wall_type, ray_steps, wall_height, wall_top, wall_bottom,
          shade_factor, shaded_color, column_rects, affiliate_links,
          click_tracking, link_performance, now, track_task, create_tasks,
          http_response, track_calls, bot_ret>>

playerVars == <<x, y, angle, health, ammo, points, current_weapon>>
worldVars == <<map_data, zombies, bullets, wave, zombies_remaining, zombies_killed,
               quota>>
engineVars == <<keys_pressed, game_state, frame_dt, ticks>>
queryVars == <<qx, qy>>
rayVars == <<ray_pc, start_x, start_y, ray_angle, ray_x, ray_y, distance, wall_type,
             ray_steps, wall_height, wall_top, wall_bottom, shade_factor,
             shaded_color, column_rects>>
botVars == <<affiliate_links, click_tracking, link_performance, now, track_task,
             create_tasks, http_response, track_calls, bot_ret>>

(***************************************************************************)
(* game/settings.py                                                        *)
(***************************************************************************)
SCREEN_WIDTH == 1024
SCREEN_HEIGHT == 768
PLAYER_SPEED == 5
MOUSE_SENSITIVITY == 2
RENDER_DISTANCE == 20
RAY_COUNT == SCREEN_WIDTH \div 2
TILE_SIZE == 64
PLAYER_START_X == 3 * TILE_SIZE
PLAYER_START_Y == 3 * TILE_SIZE
PLAYER_START_HEALTH == 100
PLAYER_MAX_HEALTH == 100
GRAY == <<128, 128, 128>>
DARK_GRAY == <<64, 64, 64>>
BULLET_DAMAGE == 50
ZOMBIE_HEALTH == 100
POINTS_PER_KILL == 50
GAME_STATE_PLAYING == "playing"
GAME_STATE_GAME_OVER == "game_over"

\* Player.__init__
START_POINTS == 500
START_AMMO == 8
max_ammo == 8
max_health == PLAYER_MAX_HEALTH

\* 2 * math.pi, in milliradians, rounded so that a quarter turn is whole
TwoPi == 6280

\* milliseconds per second: dt = clock.tick(FPS) / 1000.0
MS_PER_S == 1000

\* the float 1.0 in the fixed-point numbers of the model: the values of math.cos
\* and math.sin, the ray's position and the strip heights count thousandths
UNIT == 1000

(***************************************************************************)
(* Bounds of the model                                                     *)
(***************************************************************************)
\* shoot() is called at most this often between two reloads
MaxShots == 10
\* add_points is called only while the total stays within this
MaxPoints == 700
\* World.update is called on waves up to this one
MaxWave == 3
\* at most this many zombies, and this many bullets, are listed at a time
MaxActors == 2
\* the main loop runs at most this many ticks
MaxTicks == 2
\* so many create_affiliate_link calls may be in flight at once
MaxCallers == 2
CreateCallers == 1..MaxCallers
\* at most this many affiliate links are created, and this many clicks tracked
MaxLinks == 2
MaxClicks == 3
\* the bot's clock runs up to this day
MaxDay == 62

(***************************************************************************)
(* World                                                                   *)
(***************************************************************************)
\* World.__init__: the map literal, rows top to bottom (row r is INITIAL_MAP[r+1])
INITIAL_MAP ==
    << <<1,1,1,1,1,1,1,1,1,1,1,1,1,1,1,1,1,1,1,1>>,
       <<1,0,0,0,0,0,0,0,0,1,1,0,0,0,0,0,0,0,0,1>>,
       <<1,0,0,0,0,0,0,0,0,1,1,0,0,0,0,0,0,0,0,1>>,
       <<1,0,0,0,0,0,0,0,0,0,0,0,0,0,0,0,0,0,0,1>>,
       <<1,0,0,0,0,0,0,0,0,0,0,0,0,0,0,0,0,0,0,1>>,
       <<1,0,0,0,1,1,1,0,0,0,0,0,0,1,1,1,0,0,0,1>>,
       <<1,0,0,0,1,0,0,0,0,0,0,0,0,0,0,1,0,0,0,1>>,
       <<1,0,0,0,1,0,0,0,0,0,0,0,0,0,0,1,0,0,0,1>>,
       <<1,0,0,0,0,0,0,0,0,0,0,0,0,0,0,0,0,0,0,1>>,
       <<1,0,0,0,0,0,0,0,0,0,0,0,0,0,0,0,0,0,0,1>>,
       <<1,0,0,0,0,0,0,1,1,1,1,1,1,0,0,0,0,0,0,1>>,
       <<1,0,0,0,0,0,0,0,0,0,0,0,0,0,0,0,0,0,0,1>>,
       <<1,0,0,0,0,0,0,0,0,0,0,0,0,0,0,0,0,0,0,1>>,
       <<1,0,0,0,0,0,0,0,0,0,0,0,0,0,0,0,0,0,0,1>>,
       <<1,1,1,1,1,1,1,1,1,1,1,1,1,1,1,1,1,1,1,1>> >>

\* len(self.map_data[0]) and len(self.map_data)
get_map_width == Len(map_data[1])
get_map_height == Len(map_data)

\* faulty variant of GridIndex: int(v / TILE_SIZE), truncating toward zero
GridIndex_truncating(v) ==
    IF v >= 0 THEN v \div TILE_SIZE ELSE -((-v) \div TILE_SIZE)

\* int(v // TILE_SIZE): floor division, so a negative coordinate has a negative index
GridIndex(v) == v \div TILE_SIZE


\* the bounds test shared by is_wall and get_wall_at
OutOfBounds(grid_x, grid_y) ==
    \/ grid_x < 0
    \/ grid_x >= get_map_width
    \/ grid_y < 0
    \/ grid_y >= get_map_height

\* self.map_data[grid_y][grid_x], Python's indices counting from 0
TileCode(grid_x, grid_y) == map_data[grid_y + 1][grid_x + 1]

\* World.is_wall
is_wall(px, py) ==
    LET grid_x == GridIndex(px)
        grid_y == GridIndex(py)
    IN  IF OutOfBounds(grid_x, grid_y) THEN TRUE
        ELSE TileCode(grid_x, grid_y) = 1

\* faulty variant of get_wall_at: the "no wall" code outside the map
get_wall_at_zero_outside(grid_x, grid_y) ==
    IF OutOfBounds(grid_x, grid_y) THEN 0 ELSE TileCode(grid_x, grid_y)

\* World.get_wall_at
get_wall_at(grid_x, grid_y) ==
    IF OutOfBounds(grid_x, grid_y) THEN 1 ELSE TileCode(grid_x, grid_y)

(***************************************************************************)
(* Player                                                                  *)
(***************************************************************************)
\* a / b rounded to the nearest whole number, for b > 0
RoundDiv(a, b) == (2 * a + b) \div (2 * b)

\* faulty variant of Displacement: the step is not scaled to world units
Displacement_in_tiles(move, dt) == RoundDiv(move * PLAYER_SPEED * dt, MS_PER_S * UNIT)

\* move * self.speed * dt * TILE_SIZE, with dt in milliseconds and move in 1/UNIT,
\* to the nearest world unit.  The division is exact for a move component of
\* -1, 0 or 1 and every dt that is a multiple of 25 ms, as all of DtSet are.
Displacement(move, dt) == RoundDiv(move * PLAYER_SPEED * dt * TILE_SIZE, MS_PER_S * UNIT)

\* Player.update, lines 33-34: the candidates
CandidateX(dt, move_x) == x + Displacement(move_x, dt)
CandidateY(dt, move_y) == y + Displacement(move_y, dt)

\* faulty variant of UpdatedX: X tested against the candidate Y (no sliding)
UpdatedX_against_new_y(dt, move_x, move_y) ==
    IF (move_x # 0 \/ move_y # 0)
       /\ ~is_wall(CandidateX(dt, move_x), CandidateY(dt, move_y))
    THEN CandidateX(dt, move_x)
    ELSE x

\* Player.update, lines 31, 37-38: the X decision, against the old Y
UpdatedX(dt, move_x, move_y) ==
    IF (move_x # 0 \/ move_y # 0) /\ ~is_wall(CandidateX(dt, move_x), y)
    THEN CandidateX(dt, move_x)
    ELSE x

\* faulty variant of UpdatedY: Y tested against the old X (corners are cut)
UpdatedY_against_old_x(dt, move_x, move_y) ==
    IF (move_x # 0 \/ move_y # 0) /\ ~is_wall(x, CandidateY(dt, move_y))
    THEN CandidateY(dt, move_y)
    ELSE y

\* Player.update, lines 31, 39-40: the Y decision, against the X just decided
UpdatedY(dt, move_x, move_y) ==
    IF (move_x # 0 \/ move_y # 0)
       /\ ~is_wall(UpdatedX(dt, move_x, move_y), CandidateY(dt, move_y))
    THEN CandidateY(dt, move_y)
    ELSE y

\* Player.update
Player_update(dt, move_x, move_y) ==
    /\ x' = UpdatedX(dt, move_x, move_y)
    /\ y' = UpdatedY(dt, move_x, move_y)
    /\ op' = "update"
    /\ pre' = 0
    /\ ret' = "None"
    /\ UNCHANGED <<current_weapon, angle, health, ammo, points, shots, worldVars,
                   engineVars, queryVars, rayVars, botVars>>

\* Player.rotate, lines 46-47: while self.angle < 0
RECURSIVE WrapUp(_)
WrapUp(a) == IF a < 0 THEN WrapUp(a + TwoPi) ELSE a

\* faulty variant of WrapDown: a heading of exactly 2*pi is kept
RECURSIVE WrapDown_keeping_full_turn(_)
WrapDown_keeping_full_turn(a) ==
    IF a > TwoPi THEN WrapDown_keeping_full_turn(a - TwoPi) ELSE a

\* Player.rotate, lines 48-49: while self.angle >= 2 * math.pi
RECURSIVE WrapDown(_)
WrapDown(a) == IF a >= TwoPi THEN WrapDown(a - TwoPi) ELSE a

\* Player.rotate
Player_rotate(angle_delta) ==
    /\ angle' = WrapDown(WrapUp(angle + angle_delta))
    /\ op' = "rotate"
    /\ pre' = angle
    /\ ret' = "None"
    /\ UNCHANGED <<current_weapon, x, y, health, ammo, points, shots, worldVars,
                   engineVars, queryVars, rayVars, botVars>>

\* Player.shoot, lines 53-54: the magazine after the call
ShootAmmo == IF ammo > 0 THEN ammo - 1 ELSE ammo

\* faulty variant of ShootResult: an empty magazine still fires
ShootResult_true_on_empty == "True"

\* Player.shoot, lines 57 and 60: the value returned
ShootResult == IF ammo > 0 THEN "True" ELSE "False"

\* Player.shoot
Player_shoot ==
    /\ shots < MaxShots
    /\ ammo' = ShootAmmo
    /\ ret' = ShootResult
    /\ shots' = shots + 1
    /\ op' = "shoot"
    /\ pre' = ammo
    /\ UNCHANGED <<current_weapon, x, y, angle, health, points, worldVars,
                   engineVars, queryVars, rayVars, botVars>>

\* Player.reload, lines 64-65
ReloadAmmo == IF ammo < max_ammo THEN max_ammo ELSE ammo

\* Player.reload
Player_reload ==
    /\ ammo' = ReloadAmmo
    /\ shots' = 0
    /\ op' = "reload"
    /\ pre' = ammo
    /\ ret' = "None"
    /\ UNCHANGED <<current_weapon, x, y, angle, health, points, worldVars,
                   engineVars, queryVars, rayVars, botVars>>

\* faulty variant of DamagedHealth: no clamp at 0
DamagedHealth_unclamped(damage) == health - damage

\* Player.take_damage, lines 70-72: the health after the call
DamagedHealth(damage) == IF health - damage <= 0 THEN 0 ELSE health - damage

\* variant of DamageResult: true only on the call that brings health to 0
DamageResult_on_the_edge_only(damage) ==
    IF health > 0 /\ health - damage <= 0 THEN "True" ELSE "False"

\* Player.take_damage, lines 71-75: the value returned
DamageResult(damage) == IF health - damage <= 0 THEN "True" ELSE "False"

\* faulty variant of Player_take_damage: the game is over once the player is down
Player_take_damage_ending_the_game(damage) ==
    /\ health' = DamagedHealth(damage)
    /\ game_state' = IF DamagedHealth(damage) = 0 THEN GAME_STATE_GAME_OVER
                     ELSE game_state
    /\ ret' = DamageResult(damage)
    /\ op' = "take_damage"
    /\ pre' = health
    /\ UNCHANGED <<current_weapon, x, y, angle, ammo, points, shots, worldVars,
                   keys_pressed, frame_dt, ticks, queryVars, rayVars, botVars>>

\* Player.take_damage
Player_take_damage(damage) ==
    /\ health' = DamagedHealth(damage)
    /\ ret' = DamageResult(damage)
    /\ op' = "take_damage"
    /\ pre' = health
    /\ UNCHANGED <<current_weapon, x, y, angle, ammo, points, shots, worldVars,
                   engineVars, queryVars, rayVars, botVars>>

\* Player.add_points
Player_add_points(n) ==
    /\ points + n <= MaxPoints
    /\ points' = points + n
    /\ op' = "add_points"
    /\ pre' = points
    /\ ret' = "None"
    /\ UNCHANGED <<current_weapon, x, y, angle, health, ammo, shots, worldVars,
                   engineVars, queryVars, rayVars, botVars>>

\* faulty variant of SpentPoints: the balance is not checked
SpentPoints_without_check(cost) == points - cost

\* Player.spend_points, lines 84-85: the points after the call
SpentPoints(cost) == IF points >= cost THEN points - cost ELSE points

\* Player.spend_points, lines 84-87: the value returned
SpendResult(cost) == IF points >= cost THEN "True" ELSE "False"

\* Player.spend_points
Player_spend_points(cost) ==
    /\ points' = SpentPoints(cost)
    /\ ret' = SpendResult(cost)
    /\ op' = "spend_points"
    /\ pre' = points
    /\ UNCHANGED <<current_weapon, x, y, angle, health, ammo, shots, worldVars,
                   engineVars, queryVars, rayVars, botVars>>

(***************************************************************************)
(* World.update                                                            *)
(***************************************************************************)
\* faulty variant of IsAlive: a zombie at exactly 0 health stays listed
IsAlive_at_zero(zombie_health) == zombie_health >= 0

\* World.update, line 67: a zombie stays listed while its health is above 0.
\* (zombie.update, line 66, belongs to a Zombie class the repository does not
\* have yet, World.spawn_zombie being a stub: a listed zombie is its health.)
IsAlive(zombie_health) == zombie_health > 0

\* World.update, line 75: a bullet stays listed until should_remove is set
IsFlying(should_remove) == ~should_remove

\* faulty variant of NextWave: the wave number is not advanced
NextWave_not_advanced == wave

\* World._start_next_wave, line 84
NextWave == wave + 1

\* World._start_next_wave, line 85
NextQuota == NextWave * 6

\* faulty variant of WaveComplete: tested on the list before the removals
WaveComplete_before_removals(live) == Len(zombies) = 0 /\ zombies_remaining = 0

\* faulty variant of WaveComplete: the zombies still to spawn are not counted
WaveComplete_ignoring_remaining(live) == Len(live) = 0

\* World.update, line 79: the wave is complete, tested on the list after removals
WaveComplete(live) == Len(live) = 0 /\ zombies_remaining = 0

\* faulty variant of MapAfterWave: a new wave opens a wall tile
MapAfterWave_opening_a_door(complete) ==
    IF complete THEN [map_data EXCEPT ![2][10] = 0] ELSE map_data

\* World.update and World._start_next_wave assign nothing to map_data
MapAfterWave(complete) == map_data

\* World.update
World_update(dt) ==
    LET live == SelectSeq(zombies, IsAlive)
        killed == Len(zombies) - Len(live)
        complete == WaveComplete(live)
    IN  /\ zombies' = live
        /\ zombies_killed' = zombies_killed + killed
        /\ points' = points + killed * POINTS_PER_KILL
        /\ bullets' = SelectSeq(bullets, IsFlying)
        /\ wave' = IF complete THEN NextWave ELSE wave
        /\ zombies_remaining' = IF complete THEN NextQuota ELSE zombies_remaining
        /\ quota' = IF complete THEN NextQuota ELSE quota
        /\ map_data' = MapAfterWave(complete)
        /\ op' = "world_update"
        /\ pre' = wave
        /\ ret' = "None"
        /\ UNCHANGED <<current_weapon, x, y, angle, health, ammo, shots, engineVars,
                   queryVars, rayVars, botVars>>

\* World.add_bullet: a bullet, listed as its should_remove flag
add_bullet(bullet) ==
    /\ bullets' = Append(bullets, bullet)
    /\ op' = "add_bullet"
    /\ pre' = 0
    /\ ret' = "None"
    /\ UNCHANGED <<map_data, zombies, wave, zombies_remaining, zombies_killed, quota,
                   playerVars, shots, engineVars, queryVars, rayVars, botVars>>

(***************************************************************************)
(* The actors.  The repository has no Zombie and no Bullet class yet and   *)
(* World.spawn_zombie is a stub; what follows is what the specification    *)
(* says of actors: a wave's zombies are spawned one by one out of the      *)
(* remaining count, an actor has a health or a lifetime, and loses them.   *)
(***************************************************************************)
\* a zombie of the wave is spawned: one fewer remains to spawn
Zombie_spawn ==
    /\ zombies_remaining > 0
    /\ zombies' = Append(zombies, ZOMBIE_HEALTH)
    /\ zombies_remaining' = zombies_remaining - 1
    /\ op' = "zombie_spawn"
    /\ pre' = 0
    /\ ret' = "None"
    /\ UNCHANGED <<map_data, bullets, wave, zombies_killed, quota, playerVars, shots,
                   engineVars, queryVars, rayVars, botVars>>

\* the zombie at index i of the list is hit and loses health
Zombie_hit(i, damage) ==
    /\ i \in 1..Len(zombies)
    /\ zombies' = [zombies EXCEPT ![i] = @ - damage]
    /\ op' = "zombie_hit"
    /\ pre' = 0
    /\ ret' = "None"
    /\ UNCHANGED <<map_data, bullets, wave, zombies_remaining, zombies_killed, quota,
                   playerVars, shots, engineVars, queryVars, rayVars, botVars>>

\* the bullet at index i of the list reaches the end of its lifetime
Bullet_expire(i) ==
    /\ i \in 1..Len(bullets)
    /\ bullets' = [bullets EXCEPT ![i] = TRUE]
    /\ op' = "bullet_expire"
    /\ pre' = 0
    /\ ret' = "None"
    /\ UNCHANGED <<map_data, zombies, wave, zombies_remaining, zombies_killed, quota,
                   playerVars, shots, engineVars, queryVars, rayVars, botVars>>

(***************************************************************************)
(* GameEngine input handlers                                               *)
(***************************************************************************)
\* GameEngine.handle_key_down
handle_key_down(key) ==
    /\ keys_pressed' = keys_pressed \cup {key}
    /\ op' = "handle_key_down"
    /\ pre' = 0
    /\ ret' = "None"
    /\ UNCHANGED <<playerVars, shots, worldVars, game_state, frame_dt, ticks, queryVars,
                   rayVars, botVars>>

\* GameEngine.handle_key_up
handle_key_up(key) ==
    /\ keys_pressed' = keys_pressed \ {key}
    /\ op' = "handle_key_up"
    /\ pre' = 0
    /\ ret' = "None"
    /\ UNCHANGED <<playerVars, shots, worldVars, game_state, frame_dt, ticks, queryVars,
                   rayVars, botVars>>

\* faulty variant of handle_mouse_click: every button shoots
handle_mouse_click_any_button(button) ==
    /\ shots < MaxShots
    /\ ammo' = ShootAmmo
    /\ shots' = shots + 1
    /\ op' = "handle_mouse_click"
    /\ pre' = ammo
    /\ ret' = "None"
    /\ UNCHANGED <<current_weapon, x, y, angle, health, points, worldVars,
                   engineVars, queryVars, rayVars, botVars>>

\* GameEngine.handle_mouse_click
handle_mouse_click(button) ==
    /\ button = 1 => shots < MaxShots
    /\ ammo' = IF button = 1 THEN ShootAmmo ELSE ammo
    /\ shots' = IF button = 1 THEN shots + 1 ELSE shots
    /\ op' = "handle_mouse_click"
    /\ pre' = ammo
    /\ ret' = "None"
    /\ UNCHANGED <<current_weapon, x, y, angle, health, points, worldVars,
                   engineVars, queryVars, rayVars, botVars>>

\* GameEngine.handle_mouse_motion: rel = (dx, dy)
handle_mouse_motion(dx, dy) ==
    /\ angle' = IF game_state = GAME_STATE_PLAYING
                THEN WrapDown(WrapUp(angle + dx * MOUSE_SENSITIVITY))
                ELSE angle
    /\ op' = "handle_mouse_motion"
    /\ pre' = angle
    /\ ret' = "None"
    /\ UNCHANGED <<current_weapon, x, y, health, ammo, points, shots, worldVars,
                   engineVars, queryVars, rayVars, botVars>>

\* faulty variant of GameEngine_render: drawing the HUD refills the magazine
GameEngine_render_refilling ==
    /\ ammo' = max_ammo
    /\ op' = "render"
    /\ pre' = 0
    /\ ret' = "None"
    /\ UNCHANGED <<x, y, angle, health, points, current_weapon, shots, worldVars,
                   engineVars, queryVars, rayVars, botVars>>

\* GameEngine.render: _render_playing draws the 3D view, the HUD and the debug
\* text from the player and the world, and assigns to neither
GameEngine_render ==
    /\ op' = "render"
    /\ pre' = 0
    /\ ret' = "None"
    /\ UNCHANGED <<playerVars, shots, worldVars, engineVars, queryVars, rayVars, botVars>>

(***************************************************************************)
(* Queries of the tile map                                                 *)
(***************************************************************************)
\* a call of World.is_wall(px, py), as in test_world_collision
Call_is_wall(px, py) ==
    /\ qx' = px
    /\ qy' = py
    /\ op' = "is_wall"
    /\ pre' = 0
    /\ ret' = IF is_wall(px, py) THEN "True" ELSE "False"
    /\ UNCHANGED <<playerVars, shots, worldVars, engineVars, rayVars, botVars>>

\* a call of World.get_wall_at(grid_x, grid_y)
Call_get_wall_at(grid_x, grid_y) ==
    /\ qx' = grid_x
    /\ qy' = grid_y
    /\ op' = "get_wall_at"
    /\ pre' = 0
    /\ ret' = get_wall_at(grid_x, grid_y)
    /\ UNCHANGED <<playerVars, shots, worldVars, engineVars, rayVars, botVars>>

\* what RaySample records for a sampled point that is no hit (the march goes on)
NoHit == -1

\* Renderer._cast_ray, lines 101-106: the test of one sampled point (px, py),
\* giving the wall type recorded for a hit there
HitWallType(px, py) ==
    IF is_wall(px, py)
    THEN get_wall_at(GridIndex(px), GridIndex(py))
    ELSE NoHit

RaySample(px, py) ==
    /\ qx' = px
    /\ qy' = py
    /\ op' = "ray_sample"
    /\ pre' = 0
    /\ ret' = HitWallType(px, py)
    /\ UNCHANGED <<playerVars, shots, worldVars, engineVars, rayVars, botVars>>

(***************************************************************************)
(* math.cos and math.sin                                                   *)
(***************************************************************************)
\* the angles, in milliradians, at which the model knows the cosine and sine
TrigAngles == {0, 500, 1000, 1570, 3140, 4000, 4710, 6000}

\* math.cos(a / 1000), rounded to the thousandth
Cos(a) ==
    CASE a = 0 -> 1000
      [] a = 500 -> 878
      [] a = 1000 -> 540
      [] a = 1570 -> 1
      [] a = 3140 -> -1000
      [] a = 4000 -> -654
      [] a = 4710 -> -2
      [] a = 6000 -> 960

\* math.sin(a / 1000), rounded to the thousandth
Sin(a) ==
    CASE a = 0 -> 0
      [] a = 500 -> 479
      [] a = 1000 -> 841
      [] a = 1570 -> 1000
      [] a = 3140 -> 2
      [] a = 4000 -> -757
      [] a = 4710 -> -1000
      [] a = 6000 -> -279

(***************************************************************************)
(* Renderer: the ray march of one column                                   *)
(***************************************************************************)
\* Renderer._cast_ray, line 90
step_size == 4

\* Renderer._cast_ray, lines 94 and 109: the distance at which the march gives up
RayLimit == RENDER_DISTANCE * TILE_SIZE

\* Renderer._cast_ray, lines 83-93: the call, up to the loop
cast_ray_begin(sx, sy, a) ==
    /\ ray_pc \in {"idle", "drawn"}
    /\ ray_pc' = "march"
    /\ start_x' = sx
    /\ start_y' = sy
    /\ ray_angle' = a
    /\ ray_x' = sx * UNIT
    /\ ray_y' = sy * UNIT
    /\ distance' = 0
    /\ ray_steps' = 0
    /\ wall_type' = 0
    /\ wall_height' = 0
    /\ wall_top' = 0
    /\ wall_bottom' = 0
    /\ shade_factor' = 0
    /\ shaded_color' = <<0, 0, 0>>
    /\ column_rects' = <<>>
    /\ op' = "cast_ray_begin"
    /\ pre' = 0
    /\ ret' = "None"
    /\ UNCHANGED <<playerVars, shots, worldVars, engineVars, queryVars, botVars>>

\* Renderer._cast_ray, lines 96-97: the next sampled point
NextRayX == ray_x + Cos(ray_angle) * step_size
NextRayY == ray_y + Sin(ray_angle) * step_size

\* faulty variant of NextDistance: the distance is not advanced
NextDistance_stuck == distance

\* Renderer._cast_ray, line 98
NextDistance == distance + step_size

\* faulty variant of RayHit: the point is tested before the ray has moved
RayHit_before_the_move == is_wall(ray_x \div UNIT, ray_y \div UNIT)

\* Renderer._cast_ray, line 101: is the next sampled point in a wall
RayHit == is_wall(NextRayX \div UNIT, NextRayY \div UNIT)

\* Renderer._cast_ray, lines 94-106: one iteration of the march
cast_ray_step ==
    /\ ray_pc = "march"
    /\ distance < RayLimit
    /\ ray_x' = NextRayX
    /\ ray_y' = NextRayY
    /\ distance' = NextDistance
    /\ ray_steps' = ray_steps + 1
    /\ wall_type' = IF RayHit
                    THEN get_wall_at(GridIndex(NextRayX \div UNIT),
                                     GridIndex(NextRayY \div UNIT))
                    ELSE wall_type
    /\ ray_pc' = IF RayHit THEN "returned" ELSE "march"
    /\ op' = "cast_ray_step"
    /\ pre' = 0
    /\ ret' = "None"
    /\ UNCHANGED <<start_x, start_y, ray_angle, wall_height, wall_top, wall_bottom,
                   shade_factor, shaded_color, column_rects, playerVars, shots,
                   worldVars, engineVars, queryVars, botVars>>

\* Renderer._cast_ray, lines 94 and 109: the loop ends without a hit
cast_ray_limit ==
    /\ ray_pc = "march"
    /\ ~(distance < RayLimit)
    /\ distance' = RayLimit
    /\ wall_type' = 0
    /\ ray_pc' = "returned"
    /\ op' = "cast_ray_limit"
    /\ pre' = 0
    /\ ret' = "None"
    /\ UNCHANGED <<start_x, start_y, ray_angle, ray_x, ray_y, ray_steps, wall_height,
                   wall_top, wall_bottom, shade_factor, shaded_color, column_rects,
                   playerVars, shots, worldVars, engineVars, queryVars, botVars>>

\* faulty variant of WallHeight: the distance is counted in tiles
WallHeight_in_tiles(d) ==
    IF d > 0 THEN (SCREEN_HEIGHT * UNIT) \div d ELSE SCREEN_HEIGHT * UNIT

\* Renderer.render_3d_view, lines 41-45: wall_height, in 1/UNIT of a pixel
WallHeight(d) ==
    IF d > 0
    THEN LET h == (TILE_SIZE * SCREEN_HEIGHT * UNIT) \div d
         IN  IF h < SCREEN_HEIGHT * UNIT THEN h ELSE SCREEN_HEIGHT * UNIT
    ELSE SCREEN_HEIGHT * UNIT

\* Renderer.render_3d_view, line 48: (SCREEN_HEIGHT - wall_height) // 2, the
\* floor division of floats giving a whole number of pixels
WallTop(h) == ((SCREEN_HEIGHT * UNIT - h) \div (2 * UNIT)) * UNIT

\* Renderer.render_3d_view, line 49
WallBottom(h) == WallTop(h) + h

\* Renderer.render_3d_view, line 55: max(0.1, 1.0 - (distance / RENDER_DISTANCE)),
\* in 1/UNIT
ShadeFactor(d) ==
    LET s == UNIT - (d * UNIT) \div RENDER_DISTANCE
    IN  IF s > UNIT \div 10 THEN s ELSE UNIT \div 10

\* Renderer.__init__, lines 20-23, and render_3d_view, line 52:
\* self.wall_colors.get(wall_type, GRAY)
WallColor(type) == IF type = 2 THEN DARK_GRAY ELSE GRAY

\* Renderer.render_3d_view, line 56: int(c * shade_factor) for each channel
ShadedColor(type, d) ==
    [i \in 1..3 |-> (WallColor(type)[i] * ShadeFactor(d)) \div UNIT]

\* int() of a float given in 1/UNIT: the fraction is dropped, toward zero
IntOf(v) == IF v >= 0 THEN v \div UNIT ELSE -((-v) \div UNIT)

\* pygame.Rect(screen_x, top, strip_width, height) of a band: a Rect holds
\* integers, the floats it is given lose their fractions
PygameRect(band, top, height) ==
    [band |-> band, top |-> IntOf(top), height |-> IntOf(height)]

\* Renderer.render_3d_view, lines 62-75: the rectangles drawn for the column,
\* in the order drawn
ColumnRects(top, h, bottom) ==
    (IF top > 0 THEN <<PygameRect("ceiling", 0, top)>> ELSE <<>>)
    \o (IF h > 0 THEN <<PygameRect("wall", top, h)>> ELSE <<>>)
    \o (IF bottom < SCREEN_HEIGHT * UNIT
        THEN <<PygameRect("floor", bottom, SCREEN_HEIGHT * UNIT - bottom)>>
        ELSE <<>>)

\* Renderer.render_3d_view, lines 38-75: the strip of the column just cast
render_strip ==
    /\ ray_pc = "returned"
    /\ wall_height' = WallHeight(distance)
    /\ wall_top' = WallTop(WallHeight(distance))
    /\ wall_bottom' = WallBottom(WallHeight(distance))
    /\ shade_factor' = ShadeFactor(distance)
    /\ shaded_color' = ShadedColor(wall_type, distance)
    /\ column_rects' = ColumnRects(WallTop(WallHeight(distance)), WallHeight(distance),
                                   WallBottom(WallHeight(distance)))
    /\ ray_pc' = "drawn"
    /\ op' = "render_strip"
    /\ pre' = 0
    /\ ret' = "None"
    /\ UNCHANGED <<start_x, start_y, ray_angle, ray_x, ray_y, distance, wall_type,
                   ray_steps, playerVars, shots, worldVars, engineVars, queryVars,
                   botVars>>

(***************************************************************************)
(* GameEngine._update_playing: the movement vector                         *)
(*                                                                         *)
(* A float of the vector is a pair: its value to the thousandth and, for   *)
(* when that is 0, what the float additions leave behind, in 1e-19.  W and *)
(* S add and subtract the same two floats, which cancels exactly.  A and D *)
(* add cos(h - pi/2) and cos(h + pi/2), and the sines: math.pi/2 is not    *)
(* the quarter turn exactly (cos(math.pi/2) is 6.1e-17) and each term is   *)
(* rounded on its own, so their sum is a float near 1e-16 and seldom 0.0.  *)
(***************************************************************************)
\* pygame.K_w, K_s, K_a, K_d
MoveKeys == {"w", "s", "a", "d"}

\* 1 when the key is held, else 0
Held(keys, key) == IF key \in keys THEN 1 ELSE 0

\* math.cos(h - math.pi/2) and math.sin(h - math.pi/2), to the thousandth
CosLeft(h) == Sin(h)
SinLeft(h) == -Cos(h)

\* math.cos(h + math.pi/2) and math.sin(h + math.pi/2), to the thousandth
CosRight(h) == -Sin(h)
SinRight(h) == Cos(h)

\* the IEEE double value of <<cos(h - pi/2) + cos(h + pi/2),
\* sin(h - pi/2) + sin(h + pi/2)>>, in units of 1e-19, for h / 1000 radians
StrafeResidue(h) ==
    CASE h = 0 -> <<1225, 0>>
      [] h = 500 -> <<1110, 1110>>
      [] h = 1000 -> <<0, 1110>>
      [] h = 1570 -> <<0, -996>>
      [] h = 3140 -> <<3216, 0>>
      [] h = 4000 -> <<-1110, -1110>>
      [] h = 4710 -> <<0, -1223>>
      [] h = 6000 -> <<1110, -1110>>

\* what lines 66-71 leave of A and D below the thousandth
Residue(keys, h) ==
    IF "a" \in keys /\ "d" \in keys THEN StrafeResidue(h) ELSE <<0, 0>>

\* lines 58-71: move_x and move_y before the normalisation, to the thousandth
RawMoveX(keys, h) ==
    Held(keys, "w") * Cos(h) - Held(keys, "s") * Cos(h)
        + Held(keys, "a") * CosLeft(h) + Held(keys, "d") * CosRight(h)
RawMoveY(keys, h) ==
    Held(keys, "w") * Sin(h) - Held(keys, "s") * Sin(h)
        + Held(keys, "a") * SinLeft(h) + Held(keys, "d") * SinRight(h)

\* math.sqrt, to the nearest whole number below
Sqrt(n) == CHOOSE r \in 0..5000 : r * r <= n /\ (r + 1) * (r + 1) > n

\* lines 74-77: the vector <<vx, vy>> over its length, in 1/UNIT
Normalised(vx, vy) ==
    LET length == Sqrt(vx * vx + vy * vy)
    IN  <<RoundDiv(vx * UNIT, length), RoundDiv(vy * UNIT, length)>>

\* lines 58-77: the vector passed to Player.update, in 1/UNIT
MoveVector(keys, h) ==
    LET mx == RawMoveX(keys, h)
        my == RawMoveY(keys, h)
        tiny == Residue(keys, h)
    IN  IF mx # 0 \/ my # 0 THEN Normalised(mx, my)
        ELSE IF tiny # <<0, 0>> THEN Normalised(tiny[1], tiny[2])
        ELSE <<0, 0>>

(***************************************************************************)
(* main: the loop.  Its position is the last operation, op: a tick begins  *)
(* (clock.tick), the pending events are handled, GameEngine.update runs    *)
(* Player.update and then World.update, GameEngine.render draws.           *)
(***************************************************************************)
\* while running: the top of the loop, at the start and after a frame is drawn
AtLoopTop == op \in {"init", "render"}

\* for event in pygame.event.get(): after clock.tick, between the events
AtEvents ==
    op \in {"tick", "handle_key_down", "handle_key_up", "handle_mouse_click",
            "handle_mouse_motion"}

\* _update_playing, line 83: after self.player.update
AtWorldUpdate == op = "update"

\* faulty variant of AtRender: the frame is drawn before the world is updated
AtRender_before_world_update == op = "update"

\* main, line 63: render follows update, which ends with self.world.update
AtRender == op = "world_update"

\* main, line 41: dt = clock.tick(FPS) / 1000.0
clock_tick(ms) ==
    /\ AtLoopTop
    /\ ticks < MaxTicks
    /\ frame_dt' = ms
    /\ ticks' = ticks + 1
    /\ op' = "tick"
    /\ pre' = 0
    /\ ret' = "None"
    /\ UNCHANGED <<playerVars, shots, worldVars, keys_pressed, game_state, queryVars,
                   rayVars, botVars>>

\* main, lines 44-57: one pending event is handled
HandleEvent(handler) == AtEvents /\ handler

\* GameEngine.update and _update_playing, lines 52-80: the vector and Player.update
update_playing_move ==
    /\ AtEvents
    /\ game_state = GAME_STATE_PLAYING
    /\ Player_update(frame_dt, MoveVector(keys_pressed, angle)[1],
                     MoveVector(keys_pressed, angle)[2])

\* _update_playing, line 83: World.update
update_playing_world == AtWorldUpdate /\ World_update(frame_dt)

\* main, line 63: GameEngine.render
render_frame == AtRender /\ GameEngine_render

(***************************************************************************)
(* The affiliate bot: Database and AffiliateService                        *)
(*                                                                         *)
(* A row of affiliate_links is [id, short_id, affiliate_url, created_by,   *)
(* is_active], its id being its place in the table (AUTOINCREMENT); a row  *)
(* of click_tracking is [link_id, clicked_at], with the time in days; a    *)
(* row of link_performance is [link_id, date, clicks].  None is 0 where a  *)
(* row id is expected.                                                     *)
(***************************************************************************)
\* Database.get_click_stats: days = 30
STATS_DAYS == 30

\* the ids of the rows of affiliate_links WHERE short_id = ? AND is_active = 1
ActiveRows(short_id) ==
    {i \in 1..Len(affiliate_links) :
        affiliate_links[i].short_id = short_id /\ affiliate_links[i].is_active}

\* Database.get_affiliate_link: the id of the row fetched, or 0 for None
get_affiliate_link(short_id) ==
    IF ActiveRows(short_id) = {} THEN 0
    ELSE CHOOSE i \in ActiveRows(short_id) : \A j \in ActiveRows(short_id) : i <= j

\* short_id TEXT UNIQUE: some row, active or not, holds the short id
ShortIdTaken(short_id) ==
    \E i \in 1..Len(affiliate_links) : affiliate_links[i].short_id = short_id

\* AffiliateService.create_affiliate_link run from call to return with no
\* other coroutine in between, with the short id that generate_short_id drew
\* last: the loop of lines 38-39 ends on an id that no active link has, and
\* the INSERT fails on UNIQUE if an inactive row has it
create_affiliate_link(short_id, affiliate_url, created_by) ==
    /\ get_affiliate_link(short_id) = 0
    /\ IF ShortIdTaken(short_id)
       THEN /\ bot_ret' = <<"create_affiliate_link", "IntegrityError">>
            /\ UNCHANGED <<affiliate_links, track_calls>>
       ELSE /\ affiliate_links' =
                  Append(affiliate_links,
                         [id |-> Len(affiliate_links) + 1, short_id |-> short_id,
                          affiliate_url |-> affiliate_url, created_by |-> created_by,
                          is_active |-> TRUE])
            /\ track_calls' = Append(track_calls, <<>>)
            /\ bot_ret' = <<"create_affiliate_link", short_id, Len(affiliate_links) + 1>>
    /\ op' = "create_affiliate_link"
    /\ pre' = 0
    /\ ret' = "None"
    /\ UNCHANGED <<click_tracking, link_performance, now, track_task, create_tasks, http_response,
                   playerVars, shots,
                   worldVars, engineVars, queryVars, rayVars>>

\* what the steps of a create_affiliate_link call leave alone
CreateStepUnchanged ==
    UNCHANGED <<click_tracking, link_performance, now, track_task, http_response,
                playerVars, shots, worldVars, engineVars, queryVars, rayVars>>

\* AffiliateService.create_affiliate_link, line 35: the call begins and
\* generate_short_id draws a short id
create_draw(t, short_id, affiliate_url, created_by) ==
    /\ create_tasks[t].pc = "idle"
    /\ create_tasks' = [create_tasks EXCEPT ![t] =
                           [pc |-> "drawn", short_id |-> short_id,
                            affiliate_url |-> affiliate_url, created_by |-> created_by]]
    /\ op' = "create_draw"
    /\ pre' = 0
    /\ ret' = "None"
    /\ UNCHANGED <<affiliate_links, track_calls, bot_ret>>
    /\ CreateStepUnchanged

\* AffiliateService.create_affiliate_link, line 38: the test of the loop,
\* await self.db.get_affiliate_link(short_id)
create_check(t) ==
    /\ create_tasks[t].pc = "drawn"
    /\ create_tasks' = [create_tasks EXCEPT ![t].pc =
                           IF get_affiliate_link(create_tasks[t].short_id) # 0
                           THEN "redraw" ELSE "unique"]
    /\ op' = "create_check"
    /\ pre' = 0
    /\ ret' = "None"
    /\ UNCHANGED <<affiliate_links, track_calls, bot_ret>>
    /\ CreateStepUnchanged

\* AffiliateService.create_affiliate_link, line 39: another short id is drawn
create_redraw(t, short_id) ==
    /\ create_tasks[t].pc = "redraw"
    /\ create_tasks' = [create_tasks EXCEPT ![t].pc = "drawn",
                                            ![t].short_id = short_id]
    /\ op' = "create_redraw"
    /\ pre' = 0
    /\ ret' = "None"
    /\ UNCHANGED <<affiliate_links, track_calls, bot_ret>>
    /\ CreateStepUnchanged

\* AffiliateService.create_affiliate_link, lines 42-53, and
\* Database.create_affiliate_link: the INSERT, which raises IntegrityError if a
\* row holds the short id already (short_id TEXT UNIQUE), and the return
create_insert(t) ==
    /\ create_tasks[t].pc = "unique"
    /\ IF ShortIdTaken(create_tasks[t].short_id)
       THEN /\ bot_ret' = <<"create_affiliate_link", "IntegrityError">>
            /\ UNCHANGED <<affiliate_links, track_calls>>
       ELSE /\ affiliate_links' =
                  Append(affiliate_links,
                         [id |-> Len(affiliate_links) + 1,
                          short_id |-> create_tasks[t].short_id,
                          affiliate_url |-> create_tasks[t].affiliate_url,
                          created_by |-> create_tasks[t].created_by,
                          is_active |-> TRUE])
            /\ track_calls' = Append(track_calls, <<>>)
            /\ bot_ret' = <<"create_affiliate_link", create_tasks[t].short_id,
                            Len(affiliate_links) + 1>>
    /\ create_tasks' = [create_tasks EXCEPT ![t] = [pc |-> "idle"]]
    /\ op' = "create_insert"
    /\ pre' = 0
    /\ ret' = "None"
    /\ CreateStepUnchanged

\* AffiliateCommands.delete_link: the soft delete, by the link's owner
delete_link(short_id, author) ==
    LET link_id == get_affiliate_link(short_id)
    IN  /\ IF link_id = 0
           THEN /\ bot_ret' = <<"delete_link", "Link not found">>
                /\ UNCHANGED affiliate_links
           ELSE IF affiliate_links[link_id].created_by # author
           THEN /\ bot_ret' = <<"delete_link", "not yours">>
                /\ UNCHANGED affiliate_links
           ELSE /\ affiliate_links' =
                      [i \in 1..Len(affiliate_links) |->
                          IF affiliate_links[i].short_id = short_id
                          THEN [affiliate_links[i] EXCEPT !.is_active = FALSE]
                          ELSE affiliate_links[i]]
                /\ bot_ret' = <<"delete_link", "deleted">>
        /\ op' = "delete_link"
        /\ pre' = 0
        /\ ret' = "None"
        /\ UNCHANGED <<click_tracking, link_performance, now, track_task, track_calls,
                       create_tasks, http_response,
                   playerVars, shots, worldVars, engineVars, queryVars, rayVars>>

\* AffiliateService.track_click, lines 64-67: the lookup, up to the next await
TrackClickLookup(short_id) ==
    LET link_id == get_affiliate_link(short_id)
    IN  /\ track_task.pc = "idle"
        /\ IF link_id = 0
           THEN /\ bot_ret' = <<"track_click", FALSE, "None">>
                /\ UNCHANGED track_task
           ELSE /\ track_task' = [pc |-> "found", short_id |-> short_id,
                                  link_id |-> link_id,
                                  affiliate_url |-> affiliate_links[link_id].affiliate_url]
                /\ bot_ret' = <<"track_click", "awaiting">>
        /\ op' = "track_click_lookup"
        /\ pre' = 0
        /\ ret' = "None"
        /\ UNCHANGED <<affiliate_links, click_tracking, link_performance, now, track_calls,
                       create_tasks, playerVars, shots, worldVars, engineVars, queryVars, rayVars>>

\* AffiliateService.track_click called directly, as in test_affiliate_service:
\* the lookup
track_click_lookup(short_id) ==
    /\ TrackClickLookup(short_id)
    /\ UNCHANGED http_response

\* faulty variant of ClicksAfterTrack: the row is not inserted
ClicksAfterTrack_not_inserted(link_id) == click_tracking

\* Database.track_click, lines 132-140: the INSERT INTO click_tracking
ClicksAfterTrack(link_id) ==
    Append(click_tracking, [link_id |-> link_id, clicked_at |-> now])

\* Database._update_daily_performance: INSERT ... ON CONFLICT DO UPDATE
PerformanceAfterTrack(link_id) ==
    IF \E i \in 1..Len(link_performance) :
           link_performance[i].link_id = link_id /\ link_performance[i].date = now
    THEN [i \in 1..Len(link_performance) |->
             IF link_performance[i].link_id = link_id /\ link_performance[i].date = now
             THEN [link_performance[i] EXCEPT !.clicks = @ + 1]
             ELSE link_performance[i]]
    ELSE Append(link_performance, [link_id |-> link_id, date |-> now, clicks |-> 1])

\* AffiliateService.track_click, lines 70-79: the click is recorded and the
\* call returns (True, affiliate_url)
TrackClickRecord ==
    /\ track_task.pc = "found"
    /\ click_tracking' = ClicksAfterTrack(track_task.link_id)
    /\ link_performance' = PerformanceAfterTrack(track_task.link_id)
    /\ track_calls' = [track_calls EXCEPT ![track_task.link_id] = Append(@, now)]
    /\ bot_ret' = <<"track_click", TRUE, track_task.affiliate_url>>
    /\ track_task' = [pc |-> "idle"]
    /\ op' = "track_click"
    /\ pre' = 0
    /\ ret' = "None"
    /\ UNCHANGED <<affiliate_links, now, create_tasks, playerVars, shots, worldVars, engineVars,
                   queryVars, rayVars>>

\* AffiliateService.track_click called directly: the record and the return
track_click_record ==
    /\ TrackClickRecord
    /\ UNCHANGED http_response

\* fastapi.HTTPException(status_code, detail), as the response it becomes
HTTPException(status_code, detail) ==
    [status |-> status_code, detail |-> detail, location |-> "None"]

\* RedirectResponse(url, status_code)
RedirectResponse(url, status_code) ==
    [status |-> status_code, detail |-> "None", location |-> url]

\* click_server.track_click, lines 103-105: except Exception catches whatever
\* the try block raised, the HTTPException of line 96 included (HTTPException
\* is a subclass of Exception), and raises the 500 in its place
ExceptException(raised) == HTTPException(500, "Internal server error")

\* click_server.track_click, lines 94-105: the response, from what
\* affiliate_service.track_click returned
TrackResponse(success, redirect_url) ==
    IF ~success
    THEN ExceptException(HTTPException(404, "Link not found"))
    ELSE RedirectResponse(redirect_url, 302)

\* GET /track/{short_id}, lines 73-96: the request, up to the await inside
\* affiliate_service.track_click, or to the response if no link was found
click_server_track(short_id) ==
    /\ TrackClickLookup(short_id)
    /\ http_response' = IF get_affiliate_link(short_id) = 0
                        THEN TrackResponse(FALSE, "None")
                        ELSE [status |-> 0, detail |-> "None", location |-> "None"]

\* GET /track/{short_id}, lines 86-101: the click is recorded and the response made
click_server_respond ==
    /\ TrackClickRecord
    /\ http_response' = TrackResponse(TRUE, track_task.affiliate_url)

\* variant of get_click_stats: every click counts, however old
get_click_stats_of_all_time(link_id) ==
    Cardinality({i \in 1..Len(click_tracking) : click_tracking[i].link_id = link_id})

\* Database.get_click_stats: total_clicks, COUNT(*) WHERE link_id = ? AND
\* clicked_at >= now - 30 days
get_click_stats(link_id) ==
    Cardinality({i \in 1..Len(click_tracking) :
                    /\ click_tracking[i].link_id = link_id
                    /\ click_tracking[i].clicked_at >= now - STATS_DAYS})

\* AffiliateService.get_link_analytics: None, or the link and its total_clicks
get_link_analytics(short_id, user_id) ==
    LET link_id == get_affiliate_link(short_id)
    IN  /\ bot_ret' = IF link_id = 0 THEN <<"get_link_analytics", "None">>
                      ELSE IF affiliate_links[link_id].created_by # user_id
                      THEN <<"get_link_analytics", "None">>
                      ELSE <<"get_link_analytics", link_id, get_click_stats(link_id)>>
        /\ op' = "get_link_analytics"
        /\ pre' = 0
        /\ ret' = "None"
        /\ UNCHANGED <<affiliate_links, click_tracking, link_performance, now, track_task,
                       track_calls, create_tasks, http_response,
                   playerVars, shots, worldVars, engineVars, queryVars,
                       rayVars>>

\* Database.get_user_links: the ids of the rows WHERE created_by = ? AND is_active = 1
get_user_links(user_id) ==
    {i \in 1..Len(affiliate_links) :
        affiliate_links[i].created_by = user_id /\ affiliate_links[i].is_active}

\* Database.get_user_links: the clicks column, SELECT COUNT(*) FROM click_tracking
\* WHERE link_id = affiliate_links.id
LinkClicks(link_id) ==
    Cardinality({i \in 1..Len(click_tracking) : click_tracking[i].link_id = link_id})

\* AffiliateService.get_user_dashboard, line 107: the sum of the clicks columns
RECURSIVE SumClicks(_)
SumClicks(ids) ==
    IF ids = {} THEN 0
    ELSE LET i == CHOOSE j \in ids : TRUE
         IN  LinkClicks(i) + SumClicks(ids \ {i})

\* AffiliateService.get_user_dashboard: total_links and total_clicks
get_user_dashboard(user_id) ==
    /\ bot_ret' = <<"get_user_dashboard", user_id, Cardinality(get_user_links(user_id)),
                    SumClicks(get_user_links(user_id))>>
    /\ op' = "get_user_dashboard"
    /\ pre' = 0
    /\ ret' = "None"
    /\ UNCHANGED <<affiliate_links, click_tracking, link_performance, now, track_task,
                   track_calls, create_tasks, http_response,
                   playerVars, shots, worldVars, engineVars, queryVars,
                   rayVars>>

\* time passes: datetime.now() and CURRENT_TIMESTAMP are later by so many days
clock_advance(days) ==
    /\ now + days <= MaxDay
    /\ now' = now + days
    /\ op' = "clock_advance"
    /\ pre' = 0
    /\ ret' = "None"
    /\ UNCHANGED <<affiliate_links, click_tracking, link_performance, track_task,
                   track_calls, bot_ret, create_tasks, http_response,
                   playerVars, shots, worldVars, engineVars,
                   queryVars, rayVars>>

(***************************************************************************)
(* The state after GameEngine.__init__ (World(), Player(START_X, START_Y)), *)
(* and after Database.initialize on an empty database for the bot          *)
(***************************************************************************)
Init ==
    /\ x = PLAYER_START_X
    /\ y = PLAYER_START_Y
    /\ angle = 0
    /\ health = PLAYER_START_HEALTH
    /\ ammo = START_AMMO
    /\ points = START_POINTS
    /\ current_weapon = "M1911"
    /\ map_data = INITIAL_MAP
    /\ zombies = <<>>
    /\ bullets = <<>>
    /\ wave = 1
    /\ zombies_remaining = 0
    /\ zombies_killed = 0
    /\ quota = 0
    /\ keys_pressed = {}
    /\ game_state = GAME_STATE_PLAYING
    /\ frame_dt = 0
    /\ ticks = 0
    /\ op = "init"
    /\ ret = "None"
    /\ pre = 0
    /\ shots = 0
    /\ qx = 0
    /\ qy = 0
    /\ ray_pc = "idle"
    /\ start_x = 0
    /\ start_y = 0
    /\ ray_angle = 0
    /\ ray_x = 0
    /\ ray_y = 0
    /\ distance = 0
    /\ wall_type = 0
    /\ ray_steps = 0
    /\ wall_height = 0
    /\ wall_top = 0
    /\ wall_bottom = 0
    /\ shade_factor = 0
    /\ shaded_color = <<0, 0, 0>>
    /\ column_rects = <<>>
    /\ affiliate_links = <<>>
    /\ click_tracking = <<>>
    /\ link_performance = <<>>
    /\ now = 0
    /\ track_task = [pc |-> "idle"]
    /\ create_tasks = [t \in CreateCallers |-> [pc |-> "idle"]]
    /\ http_response = [status |-> 0, detail |-> "None", location |-> "None"]
    /\ track_calls = <<>>
    /\ bot_ret = <<"None">>

(***************************************************************************)
(* Inputs                                                                  *)
(***************************************************************************)
\* frame times in milliseconds: none, a tenth of a second, half a second
\* (displacements of 0, 32 and 160 world units for a unit move component)
DtSet == {0, 100, 500}
\* components of the movement vector: -1.0, 0.0 and 1.0
MoveSet == {-UNIT, 0, UNIT}
HalfTurn == TwoPi \div 2

\* Player.update alone, under every input
NextUpdate ==
    \E dt \in DtSet, move_x \in MoveSet, move_y \in MoveSet :
        Player_update(dt, move_x, move_y)

SpecUpdate == Init /\ [][NextUpdate]_vars

\* Player.update under every input, with the calls that leave the position alone
NextMove ==
    \/ \E dt \in DtSet, move_x \in MoveSet, move_y \in MoveSet :
          Player_update(dt, move_x, move_y)
    \/ \E d \in {HalfTurn, -HalfTurn} : Player_rotate(d)
    \/ Player_shoot
    \/ \E dt \in DtSet : World_update(dt)

SpecMove == Init /\ [][NextMove]_vars

\* amounts of damage, of points added and of points spent
DamageAmounts == {0, 25, 60}
AddAmounts == {0, 50, 100}
SpendAmounts == {0, 100, 1000}

\* the health, ammunition and score operations of Player, with World.update
NextStats ==
    \/ \E damage \in DamageAmounts : Player_take_damage(damage)
    \/ Player_shoot
    \/ Player_reload
    \/ \E n \in AddAmounts : Player_add_points(n)
    \/ \E cost \in SpendAmounts : Player_spend_points(cost)
    \/ \E dt \in DtSet : World_update(dt)

SpecStats == Init /\ [][NextStats]_vars

\* rotation deltas in milliradians: those of test_player_rotation (pi/2, pi,
\* 3*pi), small and negative ones, whole turns and more than a turn
RotateDeltas ==
    {1570, 3140, 9420, 10, -10, -1570, 0, TwoPi, -TwoPi, 2 * TwoPi,
     -(3 * TwoPi) - 20, 2 * TwoPi + 30}
\* mouse motion in pixels
MouseDx == {-3140, -785, -5, 0, 5, 785}
MouseDy == {-3, 0, 4}

\* Player.rotate and the mouse-motion handler
NextRotate ==
    \/ \E d \in RotateDeltas : Player_rotate(d)
    \/ \E dx \in MouseDx, dy \in MouseDy : handle_mouse_motion(dx, dy)

SpecRotate == Init /\ [][NextRotate]_vars

\* world coordinates queried: those of test_world_collision, the tile edges
\* and points outside the map on every side
QueryCoords ==
    {-6400, -64, -10, -1, 0, 63, 64, 192, 448, 576, 640, 703, 959, 960,
     1215, 1216, 1280, 6400}
\* grid indices queried
QueryCells == {-100, -2, -1, 21, 100} \cup (0..20)

\* the wall queries, under every input
NextQuery ==
    \/ \E px \in QueryCoords, py \in QueryCoords : Call_is_wall(px, py)
    \/ \E g_x \in QueryCells, g_y \in QueryCells : Call_get_wall_at(g_x, g_y)
    \/ \E px \in QueryCoords, py \in QueryCoords : RaySample(px, py)

SpecQuery == Init /\ [][NextQuery]_vars

\* start coordinates of a cast: in the map's corners, at the spawn point, in
\* the middle, and outside the map
RayStarts == {-10, 64, 192, 640, 832, 1152, 1300}
\* ray angles, in milliradians
RayAngles == {0, 500, 1000, 3140, 4000, 4710, 6000}

\* the renderer's work on a column: the cast from the player's pose (the centre
\* column's ray has the player's heading) or from any start, the march, the strip
NextRay ==
    \/ cast_ray_begin(x, y, angle)
    \/ \E sx \in RayStarts, sy \in RayStarts, a \in RayAngles : cast_ray_begin(sx, sy, a)
    \/ cast_ray_step
    \/ cast_ray_limit
    \/ render_strip

SpecRay == Init /\ [][NextRay]_vars

\* damage of a hit: a bullet's, and one that kills outright with overkill
HitDamages == {BULLET_DAMAGE, 3 * BULLET_DAMAGE}

\* World.update on a world with actors, up to wave MaxWave + 1
NextWaves ==
    \/ \E dt \in {100} : wave <= MaxWave /\ World_update(dt)
    \/ Len(bullets) < MaxActors /\ add_bullet(FALSE)
    \/ Len(zombies) < MaxActors /\ Zombie_spawn
    \/ \E i \in 1..MaxActors, damage \in HitDamages :
          (i <= Len(zombies) /\ zombies[i] > 0) /\ Zombie_hit(i, damage)
    \/ \E i \in 1..MaxActors : Bullet_expire(i)

SpecWaves == Init /\ [][NextWaves]_vars

\* the bot: two short ids that generate_short_id may draw, two users, and a
\* clock that moves by a month and a day
ShortIds == {"aaaaaaaa", "bbbbbbbb"}
Users == {11111, 22222}
DaySteps == {31}
UrlOf(short_id) == <<"https://amzn.to/", short_id>>

NextBot ==
    \/ \E short_id \in ShortIds, user \in Users :
          /\ Len(affiliate_links) < MaxLinks
          /\ create_affiliate_link(short_id, UrlOf(short_id), user)
    \/ \E short_id \in ShortIds, user \in Users : delete_link(short_id, user)
    \/ \E short_id \in ShortIds :
          Len(click_tracking) < MaxClicks /\ track_click_lookup(short_id)
    \/ track_click_record
    \/ \E short_id \in ShortIds, user \in Users : get_link_analytics(short_id, user)
    \/ \E user \in Users : get_user_dashboard(user)
    \/ \E days \in DaySteps : clock_advance(days)

SpecBot == Init /\ [][NextBot]_vars

\* the click server: links are created and deleted, and requests come in for
\* short ids that name a link and for short ids that name none
NextServer ==
    \/ \E short_id \in ShortIds, user \in Users :
          /\ Len(affiliate_links) < MaxLinks
          /\ create_affiliate_link(short_id, UrlOf(short_id), user)
    \/ \E short_id \in ShortIds, user \in Users : delete_link(short_id, user)
    \/ \E short_id \in ShortIds :
          Len(click_tracking) < MaxClicks /\ click_server_track(short_id)
    \/ click_server_respond

SpecServer == Init /\ [][NextServer]_vars

\* link creation step by step, by callers whose calls interleave at the awaits,
\* with the soft delete
NextCreate ==
    \/ \E t \in CreateCallers, short_id \in ShortIds, user \in Users :
          /\ Len(affiliate_links) < MaxLinks
          /\ create_draw(t, short_id, UrlOf(short_id), user)
    \/ \E t \in CreateCallers : create_check(t)
    \/ \E t \in CreateCallers, short_id \in ShortIds : create_redraw(t, short_id)
    \/ \E t \in CreateCallers : create_insert(t)
    \/ \E short_id \in ShortIds, user \in Users : delete_link(short_id, user)

SpecCreate == Init /\ [][NextCreate]_vars

\* the engine's operations: a long frame, two movement keys, both mouse buttons
EngineDt == {500}
EngineKeys == {"w", "d"}
EngineButtons == {1, 3}
EngineDx == {-1570, 1570}

Next ==
    \/ \E key \in EngineKeys : handle_key_down(key)
    \/ \E key \in EngineKeys : handle_key_up(key)
    \/ \E button \in EngineButtons : handle_mouse_click(button)
    \/ \E dx \in EngineDx, dy \in MouseDy : handle_mouse_motion(dx, dy)
    \/ \E dt \in EngineDt, move_x \in MoveSet, move_y \in MoveSet :
          Player_update(dt, move_x, move_y)
    \/ \E dt \in EngineDt : World_update(dt)
    \/ GameEngine_render

Spec == Init /\ [][Next]_vars

\* the engine's operations on a player who is hit: two hits bring the health
\* from 100 to 0, and a third finds it there
EngineDamage == {60}

NextDown ==
    \/ Next
    \/ \E damage \in EngineDamage : Player_take_damage(damage)

SpecDown == Init /\ [][NextDown]_vars

\* the main loop: a long frame, two movement keys, a quarter turn of the mouse
LoopKeys == {"w", "d"}
LoopDx == {785}

NextLoop ==
    \/ \E ms \in EngineDt : clock_tick(ms)
    \/ \E key \in LoopKeys : HandleEvent(handle_key_down(key))
    \/ \E key \in LoopKeys : HandleEvent(handle_key_up(key))
    \/ \E button \in EngineButtons : HandleEvent(handle_mouse_click(button))
    \/ \E dx \in LoopDx, dy \in {0} : HandleEvent(handle_mouse_motion(dx, dy))
    \/ update_playing_move
    \/ update_playing_world
    \/ render_frame

SpecLoop == Init /\ [][NextLoop]_vars

\* the movement keys and the headings: every set of held keys at every heading
\* of TrigAngles, in frames of a tenth of a second
KeysDx == {140, 250, 285, 355, 430, 645, 785}

NextKeys ==
    \/ \E ms \in {100} : clock_tick(ms)
    \/ \E key \in MoveKeys : HandleEvent(handle_key_down(key))
    \/ \E key \in MoveKeys : HandleEvent(handle_key_up(key))
    \/ \E dx \in KeysDx, dy \in {0} :
          /\ WrapDown(WrapUp(angle + dx * MOUSE_SENSITIVITY)) \in TrigAngles
          /\ HandleEvent(handle_mouse_motion(dx, dy))
    \/ update_playing_move
    \/ update_playing_world
    \/ render_frame

SpecKeys == Init /\ [][NextKeys]_vars

(***************************************************************************)
(* What the specification says of the tile map, stated on the map literal  *)
(***************************************************************************)
\* floor(v / TILE_SIZE) for an integer v: the exact quotient once the remainder
\* (never negative) is taken off
FloorTile(v) == (v - (v % TILE_SIZE)) \div TILE_SIZE

\* the cell is inside [0, width) x [0, height)
InsideMap(g_x, g_y) == g_x \in 0..19 /\ g_y \in 0..14

\* isWall of the specification: outside the map, or a nonzero tile code
SpecIsWall(px, py) ==
    \/ ~InsideMap(FloorTile(px), FloorTile(py))
    \/ INITIAL_MAP[FloorTile(py) + 1][FloorTile(px) + 1] # 0

(***************************************************************************)
(* C1: containment.  In every state reachable from the spawn position by   *)
(* Player.update calls with any movement vector and any dt >= 0, mixed     *)
(* with rotate, shoot and World.update calls, the player stands in a tile  *)
(* inside the map whose code is 0 (not a wall).                            *)
(***************************************************************************)
C1_Containment ==
    /\ InsideMap(FloorTile(x), FloorTile(y))
    /\ INITIAL_MAP[FloorTile(y) + 1][FloorTile(x) + 1] = 0
    /\ ~is_wall(x, y)

\* the player has left the spawn tile by updates, the other calls have run,
\* and some update from here would be refused on X by a wall
C1_Witness ==
    /\ op = "update"
    /\ x # PLAYER_START_X
    /\ y # PLAYER_START_Y
    /\ wave = 2
    /\ ammo < START_AMMO
    /\ angle # 0
    /\ \E dt \in DtSet, move_x \in MoveSet : SpecIsWall(CandidateX(dt, move_x), y)

(***************************************************************************)
(* C2: Player.update decides X first, against the old Y, and then Y        *)
(* against the X just decided.  So (a) when the X candidate is in a wall   *)
(* and the Y candidate at the old X is open the player moves on Y only,    *)
(* and (b) when X is accepted and (candidateX, candidateY) is a wall, Y is *)
(* refused even if (oldX, candidateY) is open.                             *)
(***************************************************************************)
C2_Resolution(dt, move_x, move_y) ==
    LET cx == x + Displacement(move_x, dt)
        cy == y + Displacement(move_y, dt)
    IN  /\ x' = (IF SpecIsWall(cx, y) THEN x ELSE cx)
        /\ y' = (IF SpecIsWall(x', cy) THEN y ELSE cy)
        /\ (SpecIsWall(cx, y) /\ ~SpecIsWall(x, cy)) => (x' = x /\ y' = cy)
        /\ (~SpecIsWall(cx, y) /\ SpecIsWall(cx, cy)) => (x' = cx /\ y' = y)

C2_AxisSeparated ==
    [][op' = "update" =>
          \A dt \in DtSet, move_x \in MoveSet, move_y \in MoveSet :
              (Player_update(dt, move_x, move_y) /\ (move_x # 0 \/ move_y # 0))
                  => C2_Resolution(dt, move_x, move_y)]_vars

\* after an update the player stands where a diagonal move slides (case a)
\* and where another diagonal move is stopped by the corner tile (case b)
C2_Witness ==
    /\ op = "update"
    /\ \E dt \in DtSet, move_x \in {-UNIT, UNIT}, move_y \in {-UNIT, UNIT} :
          /\ SpecIsWall(CandidateX(dt, move_x), y)
          /\ ~SpecIsWall(x, CandidateY(dt, move_y))
    /\ \E dt \in DtSet, move_x \in {-UNIT, UNIT}, move_y \in {-UNIT, UNIT} :
          /\ ~SpecIsWall(CandidateX(dt, move_x), y)
          /\ SpecIsWall(CandidateX(dt, move_x), CandidateY(dt, move_y))
          /\ ~SpecIsWall(x, CandidateY(dt, move_y))

C4_Ranges ==
    /\ 0 <= health /\ health <= max_health
    /\ 0 <= ammo /\ ammo <= max_ammo
    /\ points >= 0

\* every field is at the low end of its range, after a damage that overshot
\* and a shot on an empty magazine, and the world has been updated
C4_Witness ==
    /\ health = 0
    /\ ammo = 0
    /\ shots > max_ammo
    /\ points = 0
    /\ wave = 2

(***************************************************************************)
(* C5: shoot() with ammo N > 0 returns true and leaves N-1; with ammo 0 it *)
(* returns false, leaves 0 and changes nothing else; reload() always       *)
(* leaves ammo = max_ammo.  So from a full magazine exactly the first      *)
(* max_ammo consecutive shoot() calls return true.                         *)
(***************************************************************************)
C5_ShootStep ==
    op' = "shoot" =>
        /\ ammo > 0 => (ret' = "True" /\ ammo' = ammo - 1)
        /\ ammo = 0 => (ret' = "False" /\ ammo' = 0)
        /\ ret' = "True" <=> shots' <= max_ammo
        /\ UNCHANGED <<x, y, angle, health, points, worldVars, engineVars>>

C5_ReloadStep ==
    op' = "reload" =>
        /\ ammo' = max_ammo
        /\ UNCHANGED <<x, y, angle, health, points, worldVars, engineVars>>

C5_ShootReload == [][C5_ShootStep /\ C5_ReloadStep]_vars

\* the shot after the magazine ran empty has been refused
C5_Witness ==
    op = "shoot" /\ pre = 0 /\ ammo = 0 /\ ret = "False" /\ shots = max_ammo + 1

(***************************************************************************)
(* C6: spend_points(n) returns true and takes exactly n off the points     *)
(* when points >= n, returns false and changes nothing of the player when  *)
(* points < n; add_points(n) adds exactly n.                               *)
(***************************************************************************)
C6_SpendStep(cost) ==
    Player_spend_points(cost) =>
        /\ points >= cost => (ret' = "True" /\ points' = points - cost)
        /\ points < cost => (ret' = "False" /\ points' = points)
        /\ UNCHANGED <<x, y, angle, health, ammo>>

C6_AddStep(n) == Player_add_points(n) => (points' = points + n /\ ret' = "None")

C6_Points ==
    [][/\ op' = "spend_points" => \A cost \in SpendAmounts : C6_SpendStep(cost)
       /\ op' = "add_points" => \A n \in AddAmounts : C6_AddStep(n)]_vars

\* a spend beyond the balance has been refused after points were added
C6_Witness ==
    /\ op = "spend_points"
    /\ ret = "False"
    /\ pre = points
    /\ points > START_POINTS

(***************************************************************************)
(* C7: rotate(d) sets the heading to (heading + d) mod 2*pi for every d,   *)
(* of either sign and of any size: the heading is in [0, 2*pi) in every    *)
(* state reached by rotate and mouse-motion events, and a rotation by a    *)
(* whole number of turns leaves it unchanged.                              *)
(***************************************************************************)
C7_RotateStep(d) ==
    Player_rotate(d) =>
        /\ angle' = (angle + d) % TwoPi
        /\ d % TwoPi = 0 => angle' = angle

C7_MotionStep(dx, dy) ==
    handle_mouse_motion(dx, dy) => angle' = (angle + dx * MOUSE_SENSITIVITY) % TwoPi

C8_IsWall ==
    op = "is_wall" =>
        /\ GridIndex(qx) = FloorTile(qx)
        /\ GridIndex(qy) = FloorTile(qy)
        /\ qx < 0 => GridIndex(qx) < 0
        /\ qy < 0 => GridIndex(qy) < 0
        /\ ret \in {"True", "False"}
        /\ ret = "True" <=>
              \/ ~InsideMap(FloorTile(qx), FloorTile(qy))
              \/ INITIAL_MAP[FloorTile(qy) + 1][FloorTile(qx) + 1] # 0

\* is_wall has answered for a point left of and above the map, within one tile
C8_Witness ==
    /\ op = "is_wall"
    /\ qx \in -(TILE_SIZE - 1) .. -1
    /\ qy \in -(TILE_SIZE - 1) .. -1
    /\ ret = "True"

(***************************************************************************)
(* C9: get_wall_at gives the raw tile code inside the map and the code 1   *)
(* outside it, and agrees with is_wall on every cell: is_wall(x, y) holds  *)
(* iff get_wall_at of the cell of (x, y) is nonzero; so the tile code      *)
(* recorded for a ray hit is never 0.                                      *)
(***************************************************************************)
C9_WallCode ==
    /\ op = "get_wall_at" =>
          ret = (IF InsideMap(qx, qy) THEN INITIAL_MAP[qy + 1][qx + 1] ELSE 1)
    /\ op = "ray_sample" =>
          /\ ret # 0
          /\ ret # NoHit <=> SpecIsWall(qx, qy)
    /\ \A px \in QueryCoords, py \in QueryCoords :
          is_wall(px, py) <=> get_wall_at(FloorTile(px), FloorTile(py)) # 0

\* a ray sample outside the map has been recorded as a hit with the code 1
C9_Witness ==
    /\ op = "ray_sample"
    /\ ~InsideMap(FloorTile(qx), FloorTile(qy))
    /\ ret = 1

(***************************************************************************)
(* C10: the tile map never changes after World construction: no input      *)
(* handler, Player.update or World.update (wave advance included) changes  *)
(* a tile code or the map's dimensions, so is_wall(p) is the same for      *)
(* every p in every reachable state.                                       *)
(***************************************************************************)
C10_MapImmutable ==
    /\ map_data = INITIAL_MAP
    /\ get_map_width = 20
    /\ get_map_height = 15
    /\ \A px \in QueryCoords, py \in QueryCoords : is_wall(px, py) <=> SpecIsWall(px, py)

\* the wave has advanced, the player has moved and turned, a key is held, a
\* shot has been fired and the frame has been rendered
C10_Witness ==
    /\ op = "render"
    /\ wave = 2
    /\ x # PLAYER_START_X
    /\ angle # 0
    /\ keys_pressed # {}
    /\ ammo < START_AMMO

(***************************************************************************)
(* C11: end-to-end ray scenario.  With the player at the spawn position    *)
(* (3*TILE_SIZE, 3*TILE_SIZE) and heading 0, _cast_ray reports a hit with  *)
(* a distance within one step size (4) of (mapWidth-1-3)*TILE_SIZE = 1024  *)
(* and a nonzero tile code, and the wall-strip height of that column is    *)
(* min(SCREEN_HEIGHT, (TILE_SIZE/distance)*SCREEN_HEIGHT) = 48.            *)
(***************************************************************************)
C11_RayScenario ==
    (start_x = 3 * TILE_SIZE /\ start_y = 3 * TILE_SIZE /\ ray_angle = 0) =>
        /\ ray_pc \in {"returned", "drawn"} =>
              /\ wall_type # 0
              /\ distance >= (20 - 1 - 3) * TILE_SIZE - step_size
              /\ distance <= (20 - 1 - 3) * TILE_SIZE + step_size
              /\ (20 - 1 - 3) * TILE_SIZE = 1024
        /\ ray_pc = "drawn" =>
              /\ wall_height = 48 * UNIT
              /\ wall_height * distance = TILE_SIZE * SCREEN_HEIGHT * UNIT
              /\ wall_height <= SCREEN_HEIGHT * UNIT

\* the centre column has been cast from the player's pose at the spawn point
\* with heading 0, and its strip has been computed
C11_Witness ==
    /\ ray_pc = "drawn"
    /\ x = PLAYER_START_X /\ y = PLAYER_START_Y /\ angle = 0
    /\ start_x = x /\ start_y = y /\ ray_angle = angle
    /\ ray_steps = 256
    /\ wall_height = 48 * UNIT

(***************************************************************************)
(* C12: wave scenario.  A freshly constructed World has wave = 1, no       *)
(* zombies and zombies_remaining = 0, and the first World.update call      *)
(* moves it at once to wave = 2 with a spawn quota (zombies_remaining)     *)
(* strictly greater than the quota of wave 1.                              *)
(***************************************************************************)
C12_Fresh == wave = 1 /\ zombies = <<>> /\ zombies_remaining = 0 /\ quota = 0

C12_FirstUpdate ==
    /\ [](op = "init" => C12_Fresh)
    /\ [](wave = 1 => (C12_Fresh /\ op # "world_update"))
    /\ [][(op' = "world_update" /\ C12_Fresh) =>
             (wave' = 2 /\ zombies_remaining' > zombies_remaining
                        /\ zombies_remaining' > quota)]_vars

\* the first World.update has run, on a world that other operations had left
\* fresh, and has begun wave 2
C12_Witness ==
    /\ op = "world_update"
    /\ pre = 1
    /\ wave = 2
    /\ zombies_remaining > 0
    /\ keys_pressed # {}

(***************************************************************************)
(* C13: wave advance rule.  A World.update call increments wave by exactly *)
(* 1 and sets a new spawn quota iff, after it has removed its dead actors, *)
(* the zombie list is empty and zombies_remaining is 0 (killing the last   *)
(* zombie advances the wave in the same update); otherwise wave and        *)
(* zombies_remaining are unchanged.  wave >= 1 and never decreases,        *)
(* zombies_remaining >= 0, and the quota set for wave w+1 is strictly      *)
(* greater than the quota set for wave w.                                  *)
(***************************************************************************)
C13_AllDead == \A i \in 1..Len(zombies) : zombies[i] <= 0

C13_UpdateStep ==
    op' = "world_update" =>
        IF C13_AllDead /\ zombies_remaining = 0
        THEN /\ wave' = wave + 1
             /\ zombies_remaining' > quota
             /\ quota' = zombies_remaining'
        ELSE UNCHANGED <<wave, zombies_remaining, quota>>

C14_Count(list, v) == Cardinality({i \in 1..Len(list) : list[i] = v})

C14_Dead == Cardinality({i \in 1..Len(zombies) : zombies[i] <= 0})

C14_UpdateStep ==
    op' = "world_update" =>
        /\ zombies_killed' = zombies_killed + C14_Dead
        /\ points' = points + C14_Dead * POINTS_PER_KILL
        /\ Len(zombies') = Len(zombies) - C14_Dead
        /\ \A i \in 1..Len(zombies') : zombies'[i] > 0
        /\ \A i \in 1..Len(zombies) :
              zombies[i] > 0 => C14_Count(zombies', zombies[i]) = C14_Count(zombies, zombies[i])
        /\ Len(bullets') = C14_Count(bullets, FALSE)
        /\ \A i \in 1..Len(bullets') : bullets'[i] = FALSE

C15_Handlers ==
    {"handle_key_down", "handle_key_up", "handle_mouse_click", "handle_mouse_motion"}

C15_TickOrder ==
    [][/\ op' = "tick" => op \in {"init", "render"}
       /\ op' \in C15_Handlers => op \in {"tick"} \cup C15_Handlers
       /\ op' = "update" => op \in {"tick"} \cup C15_Handlers
       /\ op' = "world_update" => op = "update"
       /\ op' = "render" => (op = "world_update" /\ op # "update")
       /\ op = "update" => op' \notin C15_Handlers \cup {"render", "tick"}
       /\ op = "world_update" => op' \notin C15_Handlers]_vars

\* the second frame has been drawn: events were handled (a key is held, a shot
\* was fired, the mouse has turned the player), the player has moved and the
\* world has been updated
C15_Witness ==
    /\ op = "render"
    /\ ticks = 2
    /\ keys_pressed # {}
    /\ ammo < START_AMMO
    /\ angle # 0
    /\ x # PLAYER_START_X
    /\ wave = 2

(***************************************************************************)
(* C16: for every set of held keys and every heading, the movement vector  *)
(* passed to Player.update is the zero vector or has unit length; it is    *)
(* the zero vector exactly when no movement key is held or the held keys   *)
(* cancel (W held iff S held, and A held iff D held); with only W held it  *)
(* is (cos h, sin h), with only S its negation, and A/D give the           *)
(* directions at heading -/+ 90 degrees; W with both A and D gives pure    *)
(* forward motion.  (Components are compared to within 2 thousandths.)     *)
(***************************************************************************)
C16_Near(v, wx, wy) == (v[1] - wx) \in -2..2 /\ (v[2] - wy) \in -2..2

C16_UnitLength(v) == (v[1] * v[1] + v[2] * v[2] - UNIT * UNIT) \in -4000..4000

C16_Cancel(keys) ==
    /\ "w" \in keys <=> "s" \in keys
    /\ "a" \in keys <=> "d" \in keys

C16_ZeroOrUnit(v) == v = <<0, 0>> \/ C16_UnitLength(v)

C16_Directions(keys, h, v) ==
    /\ keys \cap MoveKeys = {"w"} => C16_Near(v, Cos(h), Sin(h))
    /\ keys \cap MoveKeys = {"s"} => C16_Near(v, -Cos(h), -Sin(h))
    /\ keys \cap MoveKeys = {"a"} => C16_Near(v, Sin(h), -Cos(h))
    /\ keys \cap MoveKeys = {"d"} => C16_Near(v, -Sin(h), Cos(h))
    /\ keys \cap MoveKeys = {"w", "a", "d"} => C16_Near(v, Cos(h), Sin(h))

C16_MoveVector ==
    op = "update" =>
        LET v == MoveVector(keys_pressed, angle)
        IN  /\ C16_ZeroOrUnit(v)
            /\ v = <<0, 0>> <=> C16_Cancel(keys_pressed)
            /\ C16_Directions(keys_pressed, angle, v)

(***************************************************************************)
(* C17: input handlers have confined effects.  handle_key_down(k) and      *)
(* handle_key_up(k) change nothing but the held-key set (k is held after a *)
(* key-down and not held after a key-up, every other key is as before, so  *)
(* the set is the keys whose latest event was a key-down; key-up of a key  *)
(* that is not held is a no-op); handle_mouse_motion((dx, dy)) changes     *)
(* nothing but the heading, by dx * MOUSE_SENSITIVITY, whatever dy;        *)
(* handle_mouse_click(button) calls shoot() exactly once for button 1 and  *)
(* changes nothing for any other button.                                   *)
(***************************************************************************)
C17_KeyDown(key) ==
    handle_key_down(key) =>
        /\ key \in keys_pressed'
        /\ \A other \in MoveKeys \ {key} : other \in keys_pressed' <=> other \in keys_pressed
        /\ UNCHANGED <<playerVars, shots, worldVars, game_state>>

C17_KeyUp(key) ==
    handle_key_up(key) =>
        /\ key \notin keys_pressed'
        /\ \A other \in MoveKeys \ {key} : other \in keys_pressed' <=> other \in keys_pressed
        /\ key \notin keys_pressed => keys_pressed' = keys_pressed
        /\ UNCHANGED <<playerVars, shots, worldVars, game_state>>

C17_Motion(dx, dy) ==
    handle_mouse_motion(dx, dy) =>
        /\ angle' = (angle + dx * MOUSE_SENSITIVITY) % TwoPi
        /\ UNCHANGED <<x, y, health, ammo, points, shots, worldVars, keys_pressed,
                       game_state>>

C17_Click(button) ==
    handle_mouse_click(button) =>
        /\ button = 1 =>
              /\ shots' = shots + 1
              /\ ammo' = (IF ammo > 0 THEN ammo - 1 ELSE 0)
        /\ button # 1 => UNCHANGED <<ammo, shots>>
        /\ UNCHANGED <<x, y, angle, health, points, worldVars, keys_pressed, game_state>>

C17_Handlers ==
    [][/\ op' = "handle_key_down" => \A key \in EngineKeys : C17_KeyDown(key)
       /\ op' = "handle_key_up" => \A key \in EngineKeys : C17_KeyUp(key)
       /\ op' = "handle_mouse_motion" =>
             \A dx \in EngineDx, dy \in MouseDy : C17_Motion(dx, dy)
       /\ op' = "handle_mouse_click" =>
             \A button \in EngineButtons : C17_Click(button)]_vars

\* a click of another button has left a magazine alone from which the primary
\* button had fired, with a key held and the player turned by the mouse
C17_Witness ==
    /\ op = "handle_mouse_click"
    /\ pre = ammo
    /\ ammo > 0
    /\ ammo < START_AMMO
    /\ keys_pressed = {"d"}
    /\ angle # 0

(***************************************************************************)
(* C18: Player.update changes no player field other than x and y, and      *)
(* changes a coordinate only to its accepted candidate                     *)
(* old + move * speed * dt * TILE_SIZE: in open space each update advances *)
(* the player by exactly that displacement; when the candidate on an axis  *)
(* lies in a wall that coordinate keeps its old value, at every repeat;    *)
(* and with a zero movement vector the whole player state is unchanged.    *)
(***************************************************************************)
\* move * speed * dt * TILE_SIZE for a move of -1.0, 0.0 or 1.0 and dt in ms
C18_Step(move, dt) ==
    ((move \div UNIT) * PLAYER_SPEED * dt * TILE_SIZE) \div MS_PER_S

C18_Update(dt, move_x, move_y) ==
    LET cx == x + C18_Step(move_x, dt)
        cy == y + C18_Step(move_y, dt)
    IN  Player_update(dt, move_x, move_y) =>
            /\ UNCHANGED <<angle, health, ammo, points, shots, worldVars, engineVars>>
            /\ x' \in {x, cx}
            /\ y' \in {y, cy}
            /\ (~SpecIsWall(cx, y) /\ ~SpecIsWall(cx, cy)) => (x' = cx /\ y' = cy)
            /\ SpecIsWall(cx, y) => x' = x
            /\ SpecIsWall(x', cy) => y' = y
            /\ (move_x = 0 /\ move_y = 0) => UNCHANGED playerVars

C18_UpdateFrame ==
    [][op' = "update" =>
          \A dt \in DtSet, move_x \in MoveSet, move_y \in MoveSet :
              C18_Update(dt, move_x, move_y)]_vars

\* updates have carried the player through open space to a place where the
\* next west-going update of half a second is refused by the wall
C18_Witness ==
    /\ op = "update"
    /\ x = PLAYER_START_X - 96
    /\ y = PLAYER_START_Y + 320
    /\ SpecIsWall(x - C18_Step(UNIT, 500), y)
    /\ ~SpecIsWall(x + C18_Step(UNIT, 500), y + C18_Step(UNIT, 500))

(***************************************************************************)
(* C20: the ray march terminates for every start position and every ray    *)
(* angle: _cast_ray performs at most (RENDER_DISTANCE * TILE_SIZE) /       *)
(* step_size = 320 loop iterations before it returns, also when no wall is *)
(* ever hit, so a frame of RAY_COUNT columns performs at most RAY_COUNT    *)
(* times that many.                                                        *)
(***************************************************************************)
C20_MaxSteps == (RENDER_DISTANCE * TILE_SIZE) \div step_size

C20_BoundedMarch ==
    /\ C20_MaxSteps = 320
    /\ ray_steps <= C20_MaxSteps
    /\ RAY_COUNT * ray_steps <= RAY_COUNT * C20_MaxSteps
    /\ distance = ray_steps * step_size
    /\ ray_pc = "march" =>
          \/ distance < RENDER_DISTANCE * TILE_SIZE /\ ray_steps < C20_MaxSteps
          \/ distance = RENDER_DISTANCE * TILE_SIZE /\ ray_steps = C20_MaxSteps
    /\ (ray_pc \in {"returned", "drawn"} /\ wall_type = 0) => ray_steps = C20_MaxSteps

\* a ray that met no wall has returned after its 320 iterations
C20_Witness ==
    /\ ray_pc = "returned"
    /\ op = "cast_ray_limit"
    /\ wall_type = 0
    /\ ray_steps = C20_MaxSteps
    /\ ~SpecIsWall(ray_x \div UNIT, ray_y \div UNIT)


(***************************************************************************)
(* C19: AffiliateService.track_click and the click totals                  *)
(***************************************************************************)
\* the successful track_click calls made for a link, all of them
CallsFor(link_id) == Len(track_calls[link_id])

\* the successful track_click calls made for a link in the last STATS_DAYS days
RecentCallsFor(link_id) ==
    Cardinality({k \in 1..Len(track_calls[link_id]) :
                    track_calls[link_id][k] >= now - STATS_DAYS})

RECURSIVE SumCalls(_)
SumCalls(ids) ==
    IF ids = {} THEN 0
    ELSE LET i == CHOOSE j \in ids : TRUE
         IN  CallsFor(i) + SumCalls(ids \ {i})

\* every link a user created, deleted or not
LinksCreatedBy(user_id) ==
    {i \in 1..Len(affiliate_links) : affiliate_links[i].created_by = user_id}

\* track_click on a short id: with an active link the call goes on to record
\* the click for that link; without one it returns (False, None) at once and
\* records nothing
C19_Lookup ==
    [][\A short_id \in ShortIds :
          track_click_lookup(short_id) =>
              IF get_affiliate_link(short_id) # 0
              THEN /\ track_task'.pc = "found"
                   /\ track_task'.link_id = get_affiliate_link(short_id)
                   /\ affiliate_links[track_task'.link_id].short_id = short_id
                   /\ affiliate_links[track_task'.link_id].is_active
                   /\ click_tracking' = click_tracking
              ELSE /\ bot_ret' = <<"track_click", FALSE, "None">>
                   /\ track_task'.pc = "idle"
                   /\ click_tracking' = click_tracking
                   /\ link_performance' = link_performance
                   /\ track_calls' = track_calls]_vars

\* the call that found a link records exactly one click row, for that link,
\* and returns (True, that link's affiliate_url)
C19_Record ==
    [][track_click_record =>
          /\ Len(click_tracking') = Len(click_tracking) + 1
          /\ \A i \in 1..Len(click_tracking) : click_tracking'[i] = click_tracking[i]
          /\ click_tracking'[Len(click_tracking')].link_id = track_task.link_id
          /\ bot_ret' = <<"track_click", TRUE,
                          affiliate_links[track_task.link_id].affiliate_url>>]_vars

\* the click rows of a link are its successful track_click calls
C19_Rows ==
    \A i \in 1..Len(affiliate_links) : LinkClicks(i) = CallsFor(i)

C19_Reported ==
    /\ (op = "get_link_analytics" /\ Len(bot_ret) = 3)
           => bot_ret[3] = RecentCallsFor(bot_ret[2])
    /\ op = "get_user_dashboard"
           => /\ bot_ret[3] = Cardinality(get_user_links(bot_ret[2]))
              /\ bot_ret[4] = SumCalls(get_user_links(bot_ret[2]))

C21_SampleX(k) == start_x * UNIT + k * step_size * Cos(ray_angle)
C21_SampleY(k) == start_y * UNIT + k * step_size * Sin(ray_angle)
C21_SampleIsWall(k) == is_wall(C21_SampleX(k) \div UNIT, C21_SampleY(k) \div UNIT)
C21_LastSample == RayLimit \div step_size
C21_Hits == {k \in 1..C21_LastSample : C21_SampleIsWall(k)}
C21_FirstHit == CHOOSE k \in C21_Hits : \A j \in C21_Hits : k <= j

C21_FirstWall ==
    /\ ray_pc = "march" =>
          /\ ray_x = C21_SampleX(ray_steps)
          /\ ray_y = C21_SampleY(ray_steps)
          /\ distance = ray_steps * step_size
          /\ \A k \in 1..ray_steps : ~C21_SampleIsWall(k)
    /\ ray_pc \in {"returned", "drawn"} =>
          /\ IF C21_Hits # {}
             THEN /\ distance = C21_FirstHit * step_size
                  /\ ray_steps = C21_FirstHit
                  /\ wall_type = get_wall_at(GridIndex(C21_SampleX(C21_FirstHit) \div UNIT),
                                             GridIndex(C21_SampleY(C21_FirstHit) \div UNIT))
                  /\ ~OutOfBounds(GridIndex(ray_x \div UNIT), GridIndex(ray_y \div UNIT))
                        => wall_type = TileCode(GridIndex(ray_x \div UNIT),
                                                GridIndex(ray_y \div UNIT))
                  /\ wall_type # 0
             ELSE /\ distance = RayLimit
                  /\ wall_type = 0
          /\ distance > 0
          /\ distance % step_size = 0
          /\ distance <= RayLimit
          /\ wall_type = 0 => C21_Hits = {}

\* a cast from a point next to a wall has returned a hit at its first sampled
\* point, the start itself being open
C21_Witness ==
    /\ ray_pc = "returned"
    /\ op = "cast_ray_step"
    /\ ray_steps = 1
    /\ distance = step_size
    /\ wall_type # 0
    /\ ~is_wall(start_x, start_y)


(***************************************************************************)
(* C22: for every column and every ray result, the wall-strip height is    *)
(* min(SCREEN_HEIGHT, (TILE_SIZE / distance) * SCREEN_HEIGHT) and lies in  *)
(* (0, SCREEN_HEIGHT], the strip is vertically centred with wall_top >= 0  *)
(* and wall_bottom <= SCREEN_HEIGHT, and the ceiling band [0, wall_top),   *)
(* the wall strip [wall_top, wall_bottom) and the floor band [wall_bottom, *)
(* SCREEN_HEIGHT) together cover the whole column with no gap and no       *)
(* overlap.                                                                *)
(***************************************************************************)
\* the rectangles of the column that paint pixel row r
C22_Painting(r) ==
    {i \in 1..Len(column_rects) :
        column_rects[i].top <= r /\ r < column_rects[i].top + column_rects[i].height}

\* the height and the placement of the strip
C22_Strip ==
    ray_pc = "drawn" =>
        /\ IF TILE_SIZE * SCREEN_HEIGHT < SCREEN_HEIGHT * distance
           THEN wall_height = (TILE_SIZE * SCREEN_HEIGHT * UNIT) \div distance
           ELSE wall_height = SCREEN_HEIGHT * UNIT
        /\ wall_height > 0
        /\ wall_height <= SCREEN_HEIGHT * UNIT
        /\ wall_top >= 0
        /\ wall_bottom <= SCREEN_HEIGHT * UNIT
        /\ wall_bottom = wall_top + wall_height
        \* centred: wall_top is the floor of half the room left, so the band
        \* below is as high as the band above or up to two pixels higher
        /\ wall_top <= SCREEN_HEIGHT * UNIT - wall_bottom
        /\ SCREEN_HEIGHT * UNIT - wall_bottom < wall_top + 2 * UNIT

\* every pixel row of the column is painted by exactly one band
C22_Covered ==
    ray_pc = "drawn" =>
        \A r \in 0..(SCREEN_HEIGHT - 1) : Cardinality(C22_Painting(r)) = 1

C22_Column == C22_Strip /\ C22_Covered

\* a column whose strip has a fractional height has been drawn
C22_Witness ==
    /\ ray_pc = "drawn"
    /\ wall_height % UNIT # 0
    /\ wall_height < SCREEN_HEIGHT * UNIT


(***************************************************************************)
(* C23: the shade factor applied to a wall hit at ray distance d is        *)
(* max(0.1, 1 - d/L), where L is the render-distance limit expressed in    *)
(* the same unit as d (the distance at which the ray march gives up): the  *)
(* factor falls linearly from about 1 next to the player to its floor of   *)
(* 0.1, which is reached only for hits at d >= 0.9 * L, and every shaded   *)
(* colour channel stays within 0..255.                                     *)
(***************************************************************************)
\* max(0.1, 1 - d/L) in 1/UNIT, with L the distance at which the march gives up
C23_LinearFalloff(d) ==
    LET s == UNIT - (d * UNIT) \div RayLimit
    IN  IF s > UNIT \div 10 THEN s ELSE UNIT \div 10

C23_Channels ==
    ray_pc = "drawn" => \A i \in 1..3 : shaded_color[i] \in 0..255

C23_Shade ==
    /\ (ray_pc = "drawn" /\ wall_type # 0) =>
          /\ shade_factor = C23_LinearFalloff(distance)
          /\ shade_factor = UNIT \div 10 => 10 * distance >= 9 * RayLimit
    /\ C23_Channels

(***************************************************************************)
(* C24: a ray that hits no wall within the render-distance limit still     *)
(* produces a full-height "void" strip for its column, shaded using the    *)
(* limit distance (shade factor 0.1), and never raises an error or leaves  *)
(* part of the column unpainted.                                           *)
(***************************************************************************)
\* the column just drawn is that of a ray that hit nothing
C24_NoHit == ray_pc = "drawn" /\ wall_type = 0

\* the shading of the void strip
C24_Shaded ==
    C24_NoHit =>
        /\ distance = RayLimit
        /\ shade_factor = UNIT \div 10
        /\ shaded_color = [i \in 1..3 |-> GRAY[i] \div 10]

C24_VoidStrip ==
    /\ C24_Shaded
    /\ C24_NoHit =>
          /\ wall_height = SCREEN_HEIGHT * UNIT
          /\ \A r \in 0..(SCREEN_HEIGHT - 1) : C22_Painting(r) # {}


(***************************************************************************)
(* C25: rendering is read-only on core state: a call to GameEngine.render  *)
(* (3D view, crosshair, HUD, debug overlay) leaves the player's pose,      *)
(* health, ammo, points and weapon, the world's tile map, actor lists and  *)
(* wave counters, and the held-key set all unchanged, so two consecutive   *)
(* renders with no update in between see the same state.                   *)
(***************************************************************************)
\* the steps of a render: the call itself, and the casts and strips of the
\* columns of the 3D view
C25_RenderOps ==
    {"render", "cast_ray_begin", "cast_ray_step", "cast_ray_limit", "render_strip"}

C25_ReadOnly ==
    [][op' \in C25_RenderOps =>
          /\ UNCHANGED <<x, y, angle, health, ammo, points, current_weapon>>
          /\ UNCHANGED <<map_data, zombies, bullets, wave, zombies_remaining,
                         zombies_killed>>
          /\ UNCHANGED <<keys_pressed, game_state>>]_vars

\* a render has been made of a game in which the player has moved, turned and
\* shot, a key is held and the second wave has begun
C25_Witness ==
    /\ op = "render"
    /\ x # PLAYER_START_X
    /\ angle # 0
    /\ ammo < START_AMMO
    /\ keys_pressed # {}
    /\ wave = 2


(***************************************************************************)
(* C26: the click server's GET /track/{short_id} responds with HTTP 404    *)
(* "Link not found" (not a 5xx error) when no active link has that         *)
(* short_id, and with a 302 redirect to the link's affiliate_url after     *)
(* recording one click when the link exists.                               *)
(***************************************************************************)
\* the request found a link: one click recorded, and a 302 to its affiliate_url
C26_Redirect ==
    [][click_server_respond =>
          /\ Len(click_tracking') = Len(click_tracking) + 1
          /\ click_tracking'[Len(click_tracking')].link_id = track_task.link_id
          /\ http_response'.status = 302
          /\ http_response'.location = affiliate_links[track_task.link_id].affiliate_url
          /\ affiliate_links[track_task.link_id].short_id = track_task.short_id]_vars

\* the request found no link: a 404 and nothing recorded
C26_NotFound ==
    [][\A short_id \in ShortIds :
          (click_server_track(short_id) /\ get_affiliate_link(short_id) = 0) =>
              /\ http_response'.status = 404
              /\ http_response'.detail = "Link not found"
              /\ click_tracking' = click_tracking]_vars

C26_Track == C26_Redirect /\ C26_NotFound


(***************************************************************************)
(* C27: short-id uniqueness: AffiliateService.create_affiliate_link only   *)
(* ever inserts a short_id that no row of affiliate_links already holds,   *)
(* whether that row is active or soft-deleted (is_active = 0) and also     *)
(* when two create_affiliate_link calls interleave at their await points   *)
(* between the uniqueness check and the insert; so no two links ever share *)
(* a short_id and the insert never fails on the UNIQUE constraint.         *)
(***************************************************************************)
\* no two rows of affiliate_links share a short id
C27_NoSharedShortId ==
    \A i, j \in 1..Len(affiliate_links) :
        affiliate_links[i].short_id = affiliate_links[j].short_id => i = j

\* the INSERT is only reached with a short id that no row holds, and succeeds
C27_InsertNeverFails ==
    [][\A t \in CreateCallers :
          create_insert(t) =>
              /\ ~ShortIdTaken(create_tasks[t].short_id)
              /\ Len(affiliate_links') = Len(affiliate_links) + 1
              /\ bot_ret' # <<"create_affiliate_link", "IntegrityError">>]_vars

C27_ShortIdUnique == []C27_NoSharedShortId /\ C27_InsertNeverFails


(***************************************************************************)
(* C28: wave progression stalls: after the first World.update of a game,   *)
(* wave = 2 and zombies_remaining = 12 hold in every later reachable       *)
(* state, because no engine operation ever decrements zombies_remaining or *)
(* adds a zombie to the world (spawn_zombie does nothing); the wave number *)
(* therefore never exceeds 2 and zombies_killed and the kill-derived       *)
(* points never change.                                                    *)
(***************************************************************************)
\* the world as the first World.update leaves it
C28_Stalled ==
    /\ wave = 2
    /\ zombies_remaining = 12
    /\ zombies = <<>>
    /\ zombies_killed = 0
    /\ points = START_POINTS

\* before that update the world is as constructed, from it on it is stalled
C28_State ==
    /\ wave <= 2
    /\ wave = 1 => (zombies_remaining = 0 /\ zombies = <<>> /\ zombies_killed = 0)
    /\ wave = 2 => C28_Stalled

C28_Steps ==
    [][/\ op' = "world_update" => C28_Stalled'
       /\ C28_Stalled => C28_Stalled'
       /\ zombies_remaining' >= zombies_remaining
       /\ Len(zombies') <= Len(zombies)
       /\ UNCHANGED <<zombies_killed, points>>]_vars

C28_WaveStall == []C28_State /\ C28_Steps

\* World.update has run on a world already in its second wave, after shots
C28_Witness ==
    /\ op = "world_update"
    /\ pre = 2
    /\ wave = 2
    /\ zombies_remaining = 12
    /\ ammo < START_AMMO


(***************************************************************************)
(* C29: no tunnelling: for every dt > 0 and every unit movement vector, a  *)
(* single Player.update never carries the player across a wall, i.e.       *)
(* whenever a coordinate changes, every tile lying between the old and the *)
(* new position along that axis is open, so the player can never get from  *)
(* one open region to another that is separated from it by wall tiles.     *)
(***************************************************************************)
\* the grid indices from that of coordinate a to that of coordinate b
C29_Between(a, b) ==
    IF a <= b THEN GridIndex(a)..GridIndex(b) ELSE GridIndex(b)..GridIndex(a)

C29_Open(g_x, g_y) == ~OutOfBounds(g_x, g_y) /\ TileCode(g_x, g_y) = 0

\* the movement vectors of length 1 along the axes and the diagonals
C29_UnitVectors ==
    {<<UNIT, 0>>, <<-UNIT, 0>>, <<0, UNIT>>, <<0, -UNIT>>,
     <<707, 707>>, <<707, -707>>, <<-707, 707>>, <<-707, -707>>}

\* the X move runs along the row of the old y, the Y move along the column of
\* the x just decided
C29_NoTunnelling ==
    [][\A dt \in DtSet \ {0}, v \in C29_UnitVectors :
          Player_update(dt, v[1], v[2]) =>
              /\ x' # x => \A g \in C29_Between(x, x') : C29_Open(g, GridIndex(y))
              /\ y' # y => \A g \in C29_Between(y, y') : C29_Open(GridIndex(x'), g)]_vars


(***************************************************************************)
(* C30: game_state equals GAME_STATE_PLAYING in every reachable state of   *)
(* the engine: no input event, update or player outcome changes it, so     *)
(* even after take_damage has brought health to 0 (player down) every      *)
(* later tick still applies movement, rotation, shooting and world updates *)
(* and there is no transition to a paused or game-over state.              *)
(***************************************************************************)
C30_Playing == game_state = GAME_STATE_PLAYING

\* what the operations do to a player who is down: the same as to one who is up
C30_DownStillPlays ==
    [][health = 0 =>
          /\ game_state' = game_state
          /\ op' = "handle_mouse_motion" =>
                \E dx \in EngineDx :
                    angle' = WrapDown(WrapUp(angle + dx * MOUSE_SENSITIVITY))
          /\ op' = "handle_mouse_click" => ammo' \in {ammo, ShootAmmo}
          /\ op' = "update" =>
                \E dt \in EngineDt, move_x \in MoveSet, move_y \in MoveSet :
                    /\ x' = UpdatedX(dt, move_x, move_y)
                    /\ y' = UpdatedY(dt, move_x, move_y)
          /\ op' = "world_update" => wave' = (IF WaveComplete(zombies) THEN NextWave
                                              ELSE wave)]_vars

C30_AlwaysPlaying == []C30_Playing /\ C30_DownStillPlays

\* the player is down, and the click handled last still fired a shot
C30_Witness ==
    /\ health = 0
    /\ op = "handle_mouse_click"
    /\ ammo = pre - 1
    /\ game_state = GAME_STATE_PLAYING

====
